---- MODULE Spec2Model ----
(***************************************************************************)
(* Model of the PEBL transfer monitor (scripts/transfer-gui.py): the GTK   *)
(* coordinator that polls the status files written by the external USB     *)
(* transfer script, gates the operator prompts, applies the sync schedule  *)
(* and resets itself on eject / device removal.                            *)
(*                                                                         *)
(* Every GLib timer callback and every signal handler is one action; a     *)
(* modal dialog.run() splits its handler in two (open, respond) because    *)
(* the nested main loop keeps dispatching timers while the dialog is open. *)
(***************************************************************************)
EXTENDS Integers, Sequences, FiniteSets, TLC

VARIABLES
    statusFile,              \* content of STATUS_FILE, or Absent
    progressFile,            \* <<record>> in PROGRESS_FILE, <<>> when it does not exist
    lockFile,                \* /tmp/usb-transfer.lock exists
    decisionFile,            \* content of DECISION_FILE, or Absent
    deviceRefFile,           \* content of DEVICE_REF_FILE, or Absent
    transfer_done,           \* self.transfer_done
    decision_dialog_shown,   \* self.decision_dialog_shown
    device_ref_dialog_shown, \* self.device_ref_dialog_shown
    view,                    \* the widgets of the transfer panel
    idle_queue,              \* callbacks handed to GLib.idle_add, not yet run
    dialog_stack,            \* modal dialogs inside dialog.run(), innermost last
    reset_timers,            \* pending GLib.timeout_add(3000, reset_to_waiting)
    config,                  \* self.config
    configFile,              \* the record in SYNC_CONFIG_FILE; <<>>: absent or empty
    hour,                    \* datetime.now().hour
    syncRunning,             \* a backup-to-gdrive / rclone sync process is alive
    syncLock,                \* /tmp/gdrive-sync.lock exists
    sync_schedule,           \* what update_sync last put on the schedule label
    lastOp,                  \* the handler (and branch) that ran last
    at_entry,                \* what that handler found when it started
    effects,                 \* OS commands that handler issued, in order
    stay_prompts,            \* prompts scheduled since STATUS_FILE last changed
    progress,                \* update_transfer's local `progress` after its parse
    timers,                  \* the periodic GLib sources that are still installed
    is_dimmed,               \* self.is_dimmed
    last_activity_time,      \* self.last_activity_time, in seconds
    monotonic_time,          \* GLib.get_monotonic_time(), in seconds
    backlight_path,          \* detect_backlight found a brightness file
    brightness,              \* the level in the brightness file
    dims_since_wake,         \* set_brightness(brightness_dim) calls since the last wake
    config_disk,             \* how a write to SYNC_CONFIG_FILE ends
    gdriveFile,              \* the bytes of GDRIVE_INFO_FILE, as cells of records
    gdrive_info,             \* self.gdrive_info
    fetchers,                \* the running fetch_gdrive_info threads
    finished,                \* the records whose refresh ran to its end
    notificationsFile,       \* the lines of NOTIFICATIONS_FILE; <<>>: absent or empty
    reply,                   \* what the status server sent for the last GET
    storage,                 \* what is mounted at /media/external-hdd; the USB partition
    report,                  \* what on_remount collected and what the labels show
    minute,                  \* datetime.now().minute
    refresh_timers,          \* pending GLib.timeout_add(300000, start_gdrive_info_fetch)
    mode_button              \* the sync mode button that carries btn-primary

files    == <<statusFile, progressFile, lockFile>>
answers  == <<decisionFile, deviceRefFile>>
flags    == <<transfer_done, decision_dialog_shown, device_ref_dialog_shown>>
loop     == <<idle_queue, dialog_stack, reset_timers>>
syncvars == <<config, configFile, hour, syncRunning, syncLock, sync_schedule>>
dimvars  == <<is_dimmed, last_activity_time, monotonic_time, backlight_path,
              brightness, dims_since_wake>>
quota    == <<gdriveFile, gdrive_info, fetchers, finished>>
services == <<notificationsFile, reply, storage, report, minute, refresh_timers,
              mode_button>>
offstage == <<progress, timers, dimvars, config_disk, quota, notificationsFile, reply,
              storage, report, minute, refresh_timers>>
housekeeping == <<progress, timers, dimvars, config_disk, quota, services>>
vars     == <<files, answers, flags, view, loop, syncvars, lastOp, at_entry,
              effects, stay_prompts, housekeeping>>

-----------------------------------------------------------------------------
(* Bounds of the model *)

MaxPending == 1
MaxTimers  == 1

-----------------------------------------------------------------------------
(* Phase tokens and file contents *)

Absent == "absent"

PulsePhases    == {"DETECTING", "MOUNTING", "SCANNING", "CHECKING"}
ActivePhases   == PulsePhases \cup {"PENDING_NAME", "PENDING_DECISION", "TRANSFERRING"}
TerminalPhases == {"COMPLETE", "ALL_DUPLICATES", "CANCELLED", "FAILED"}
Phases         == ActivePhases \cup TerminalPhases \cup {"IDLE"}

CancelledRecord ==
    [status |-> "cancelled", percent |-> 0, files_done |-> 0, files_total |-> 0]

ProgressSamples ==
    { [status |-> "transferring", percent |-> 40, files_done |-> 2, files_total |-> 5] }

\* status = f.read().strip(), "" when the file does not exist
ReadStatus(f) == IF f = Absent THEN "" ELSE f

\* progress.get(key, 0) on the parsed progress file ({} when it does not exist)
ProgressGet(f, key) == IF f = <<>> THEN 0 ELSE f[1][key]

-----------------------------------------------------------------------------
(* The transfer panel *)

\* set_fraction(1.0), in percent
FULL == 100

TextWaiting   == "Insert USB drive to start backup"
TextComplete  == "Transfer Complete!"
TextCancelled == "Transfer Cancelled"
TextEjected   == "USB Ejected - Safe to Remove"

\* fraction: the fill of the bar in percent, <<>> while it pulses;
\* status_text: the headline label; progress: what the bar shows, "pulse" in
\* activity mode and the percentage otherwise; eject_sensitive: the eject
\* button; cancel_visible: the cancel button, which is sensitive whenever it
\* is shown (show() always comes with set_sensitive(True)).
WaitingView ==
    [status_text |-> TextWaiting, progress |-> "0%", fraction |-> <<0>>,
     eject_sensitive |-> FALSE, cancel_visible |-> FALSE]

PulseText(status) ==
    CASE status = "DETECTING" -> "USB Drive Detected"
      [] status = "MOUNTING"  -> "Mounting USB Drive..."
      [] status = "SCANNING"  -> "Scanning Files..."
      [] status = "CHECKING"  -> "Checking for Duplicates..."

\* The widgets update_transfer writes for the status it read; files_done and
\* percent come from the progress file.  `v` is the panel before the poll.
RenderTransfer(status, v, done, pct, td) ==
    CASE status \in PulsePhases ->
           [v EXCEPT !.status_text = PulseText(status),
                     !.progress = "pulse", !.fraction = <<>>,
                     !.eject_sensitive = FALSE,
                     !.cancel_visible = TRUE]
      [] status = "PENDING_NAME" ->
           [v EXCEPT !.status_text = "Enter Device Reference",
                     !.progress = "Waiting for input...", !.fraction = <<0>>,
                     !.eject_sensitive = FALSE,
                     !.cancel_visible = TRUE]
      [] status = "PENDING_DECISION" ->
           [v EXCEPT !.status_text = "Files Already Exist",
                     !.progress = "Waiting for input...", !.fraction = <<0>>,
                     !.eject_sensitive = FALSE,
                     !.cancel_visible = TRUE]
      [] status = "TRANSFERRING" ->
           [v EXCEPT !.status_text = "Copying Files...",
                     !.progress = ToString(pct) \o "%", !.fraction = <<pct>>,
                     !.eject_sensitive = FALSE,
                     !.cancel_visible = TRUE]
      [] status = "COMPLETE" ->
           [v EXCEPT !.status_text = TextComplete,
                     !.progress = "100%", !.fraction = <<FULL>>,
                     !.eject_sensitive = TRUE, !.cancel_visible = FALSE]
      [] status = "ALL_DUPLICATES" ->
           [v EXCEPT !.status_text = "All Files Already Backed Up",
                     !.progress = "100%", !.fraction = <<FULL>>,
                     !.eject_sensitive = TRUE, !.cancel_visible = FALSE]
      [] status = "CANCELLED" ->
           [v EXCEPT !.status_text = TextCancelled,
                     !.progress = "Cancelled", !.fraction = <<0>>,
                     !.eject_sensitive = TRUE, !.cancel_visible = FALSE]
      [] status = "FAILED" ->
           [v EXCEPT !.status_text = IF done > 0 THEN "Completed with Warnings"
                                                 ELSE "Transfer Failed",
                     !.progress = "Error", !.fraction = <<0>>,
                     !.eject_sensitive = TRUE, !.cancel_visible = FALSE]
      [] OTHER ->
           IF ~td
           THEN [v EXCEPT !.status_text = TextWaiting,
                          !.progress = "0%", !.fraction = <<0>>,
                          !.eject_sensitive = FALSE, !.cancel_visible = FALSE]
           ELSE v

\* self.transfer_done after update_transfer has handled `status`
TransferDoneAfter(status, td) ==
    CASE status \in PulsePhases \cup {"TRANSFERRING"} -> FALSE
      [] status \in TerminalPhases                     -> TRUE
      [] OTHER                                         -> td

\* The kind of prompt update_transfer schedules for `status`, "none" when the
\* status asks for no prompt or the latch of its kind is already set.
PromptFor(status, ref_shown, dec_shown) ==
    CASE status = "PENDING_NAME"     /\ ~ref_shown -> "device_ref"
      [] status = "PENDING_DECISION" /\ ~dec_shown -> "decision"
      [] OTHER                                     -> "none"

-----------------------------------------------------------------------------
(* The sync schedule *)

DEFAULT_CONFIG == [mode |-> "24hr", start_hour |-> 22, end_hour |-> 6]

\* The mode of a configuration that has no "mode" key
NoKey == "<no key>"

\* c.get("mode", default)
GetMode(c, default) == IF c.mode = NoKey THEN default ELSE c.mode

\* update_sync_mode_buttons: the button that gets btn-primary
update_sync_mode_buttons(c) ==
    LET mode == GetMode(c, "24hr")
    IN  CASE mode = "24hr"  -> "btn_24hr"
          [] mode = "night" -> "btn_night"
          [] OTHER          -> "btn_custom"

HoursPerDay == 24
Hours == 0 .. (HoursPerDay - 1)

NIGHT_START == 22
NIGHT_END   == 6

\* is_in_sync_window without the overnight case
is_in_sync_window_SameDay(h, start_hour, end_hour) ==
    h >= start_hour /\ h < end_hour

\* is_in_sync_window(start_hour, end_hour) at hour h
is_in_sync_window(h, start_hour, end_hour) ==
    IF start_hour > end_hour
    THEN h >= start_hour \/ h < end_hour
    ELSE h >= start_hour /\ h < end_hour

\* in_window computed with the same-day formula only
UpdateSyncInWindow_SameDay(h, start, end) == h >= start /\ h < end

\* in_window as update_sync computes it, in the night and the custom branch
UpdateSyncInWindow(h, start, end) == h >= start \/ h < end

MinutesPerHour == 60
Minutes == {0, MinutesPerHour - 1}

\* next_sync and delta of update_sync at h:m for a window start..end: the start
\* hour on the label, the day next_sync falls on (0: today), and the "in {h}h
\* {m}m" of the label. now.replace(hour, minute) keeps the seconds of now, so
\* delta is a whole number of minutes.
NextSync(h, m, start, end) ==
    LET day   == IF h >= end THEN 0 ELSE 1
        delta == (day * HoursPerDay + start) * MinutesPerHour - (h * MinutesPerHour + m)
    IN  [hour |-> start, day |-> day,
         h |-> delta \div MinutesPerHour, m |-> delta % MinutesPerHour]

\* The schedule label update_sync renders for configuration c at hour h
UpdateSync(c, h) ==
    CASE GetMode(c, "scheduled") = "24hr" ->
           [mode_label |-> "24HR MODE - Always Syncing", text |-> "continuous"]
      [] GetMode(c, "scheduled") = "night" ->
           [mode_label |-> "Night Mode",
            text |-> IF UpdateSyncInWindow(h, NIGHT_START, NIGHT_END)
                     THEN "active" ELSE "starts"]
      [] OTHER ->
           [mode_label |-> "Custom Schedule",
            text |-> IF UpdateSyncInWindow(h, c.start_hour, c.end_hour)
                     THEN "active" ELSE "next"]

\* The same label at h:m with the numbers of its text: next_sync is <<>> where
\* the text names no next start
UpdateSyncText(c, h, m) ==
    LET label == UpdateSync(c, h)
        start == IF c.mode = "night" THEN NIGHT_START ELSE c.start_hour
        end   == IF c.mode = "night" THEN NIGHT_END ELSE c.end_hour
    IN  [mode_label |-> label.mode_label, text |-> label.text,
         next_sync |-> IF label.text \in {"starts", "next"}
                       THEN <<NextSync(h, m, start, end)>> ELSE <<>>]

\* stop_running_sync: the commands it runs
StopSyncCommands == <<"pkill backup-to-gdrive", "pkill rclone sync", "rm gdrive-sync.lock">>

\* apply_sync_mode_change that only stops the sync inside the window
ApplyStopsSync_Inside(c, h) ==
    /\ GetMode(c, "24hr") # "24hr"
    /\ is_in_sync_window(h, c.start_hour, c.end_hour)

\* apply_sync_mode_change: TRUE iff it calls stop_running_sync
ApplyStopsSync(c, h) ==
    /\ GetMode(c, "24hr") # "24hr"
    /\ ~is_in_sync_window(h, c.start_hour, c.end_hour)

-----------------------------------------------------------------------------
(* The progress record, the periodic sources, the backlight, the quota cache *)

\* The keys update_transfer's fallback extracts from the progress file
ProgressKeys == {"percent", "message", "current_file", "status", "speed"}

\* A JSON value by type and text; Missing stands for a key the dict lacks
Value(ty, val) == [ty |-> ty, val |-> val]
Missing == Value("missing", "")

\* progress = {}
\* file_types: the members of the record's file_types mapping ({}: the mapping
\* is empty or the record has none)
EmptyProgress ==
    [kind |-> "dict", fields |-> [k \in ProgressKeys |-> Missing], file_types |-> {}]

\* GLib.timeout_add(500, update_all), (2000, check_usb_removed), (10000, check_auto_dim)
PeriodicHandlers == {"update_all", "check_usb_removed", "check_auto_dim"}

\* detect_backlight's values when no max_brightness file is read
BRIGHTNESS_MAX == 255
BRIGHTNESS_DIM == 5

\* The record a refresh writes: the account's used bytes and the file count of
\* the cloud folder (0 when the size query gave nothing)
QuotaUsed  == {1, 2}
CloudFiles == 7
Records    == [used : QuotaUsed, cloud_files : {0, CloudFiles}]

\* The text json.dump writes for r, cut in pieces of equal length; zeros make
\* the text shorter
CellsOf(r) == IF r.cloud_files = 0 THEN 2 ELSE 3
Cell(r, k) == [rec |-> r, part |-> k]
Text(r)    == [k \in 1 .. CellsOf(r) |-> Cell(r, k)]

\* json.load that reads each key where it finds it, whatever surrounds it
json_load_Lenient(file) ==
    IF file = <<>> THEN <<>>
    ELSE <<[used |-> file[1].rec.used, cloud_files |-> file[Len(file)].rec.cloud_files]>>

\* json.load(f): <<the record>>, or <<>> when it raises
json_load(file) ==
    IF \E r \in Records : file = Text(r)
    THEN <<CHOOSE r \in Records : file = Text(r)>>
    ELSE <<>>

\* self.gdrive_info after load_gdrive_info (the file absent or empty: <<>>)
load_gdrive_info(file, info) ==
    IF json_load(file) = <<>> THEN info ELSE json_load(file)

\* The state the start-up code leaves outside the transfer and sync panels
HousekeepingInit ==
    /\ progress = EmptyProgress
    /\ timers = PeriodicHandlers
    /\ is_dimmed = FALSE
    /\ last_activity_time = 0
    /\ monotonic_time = 0
    /\ backlight_path = TRUE
    /\ brightness = BRIGHTNESS_MAX
    /\ dims_since_wake = 0
    /\ config_disk = "ok"
    /\ gdriveFile = <<>>
    /\ gdrive_info = <<>>
    /\ fetchers = <<>>
    /\ finished = {}
    /\ notificationsFile = <<>>
    /\ reply = [path |-> "", code |-> 0, body |-> <<>>]
    /\ storage = [hdd |-> "none", usb_present |-> FALSE, usb_mounted |-> FALSE]
    /\ report = [attempts |-> <<>>, mounted_devices |-> <<>>, errors |-> <<>>,
                 message |-> [kind |-> "", items |-> <<>>]]

-----------------------------------------------------------------------------
(* State after PEBLTransferMonitor.__init__ *)

Init ==
    /\ statusFile = Absent
    /\ progressFile = <<>>
    /\ lockFile = FALSE
    /\ decisionFile = Absent
    /\ deviceRefFile = Absent
    /\ transfer_done = FALSE
    /\ decision_dialog_shown = FALSE
    /\ device_ref_dialog_shown = FALSE
    /\ view = WaitingView
    /\ idle_queue = <<>>
    /\ dialog_stack = <<>>
    /\ reset_timers = 0
    /\ config = DEFAULT_CONFIG
    /\ configFile = <<>>
    /\ hour = 12
    /\ minute = 0
    /\ refresh_timers = 1
    /\ mode_button = update_sync_mode_buttons(config)
    /\ syncRunning = FALSE
    /\ syncLock = FALSE
    /\ sync_schedule = [mode_label |-> "", text |-> ""]
    /\ lastOp = "init"
    /\ at_entry = [phase |-> Absent, mode |-> config.mode, sync |-> syncRunning]
    /\ effects = <<>>
    /\ stay_prompts = 0
    /\ HousekeepingInit

\* Bookkeeping of a coordinator handler named op that issued the commands cmds
Ran(op, cmds) ==
    /\ lastOp' = op
    /\ at_entry' = [phase |-> statusFile, mode |-> config.mode, sync |-> syncRunning]
    /\ effects' = cmds

\* Bookkeeping of a step of the environment
EnvStep ==
    /\ lastOp' = "env"
    /\ at_entry' = [phase |-> statusFile', mode |-> config'.mode, sync |-> syncRunning']
    /\ effects' = <<>>

-----------------------------------------------------------------------------
(* The external transfer script: it overwrites the phase and progress files  *)
(* and creates the lock marker whenever it likes.                            *)

ExternalWriteStatus ==
    \E p \in Phases :
        /\ p # statusFile
        /\ statusFile' = p
        /\ stay_prompts' = 0
        /\ UNCHANGED <<housekeeping, progressFile, lockFile, answers, flags, view, loop, syncvars>>
        /\ EnvStep

ExternalWriteProgress ==
    \E r \in ProgressSamples :
        /\ <<r>> # progressFile
        /\ progressFile' = <<r>>
        /\ UNCHANGED <<housekeeping, statusFile, lockFile, answers, flags, view, loop, syncvars,
                       stay_prompts>>
        /\ EnvStep

ExternalLock ==
    /\ ~lockFile
    /\ lockFile' = TRUE
    /\ UNCHANGED <<housekeeping, statusFile, progressFile, answers, flags, view, loop, syncvars,
                   stay_prompts>>
    /\ EnvStep

-----------------------------------------------------------------------------
(* update_all: the 500 ms poll (update_transfer, then update_sync) *)

UpdateAllShowing(schedule) ==
    LET status == ReadStatus(statusFile)
        prompt == PromptFor(status, device_ref_dialog_shown, decision_dialog_shown)
    IN  /\ prompt # "none" => Len(idle_queue) + Len(dialog_stack) < MaxPending
        /\ view' = RenderTransfer(status, view,
                                  ProgressGet(progressFile, "files_done"),
                                  ProgressGet(progressFile, "percent"),
                                  transfer_done)
        /\ transfer_done' = TransferDoneAfter(status, transfer_done)
        /\ device_ref_dialog_shown' = (device_ref_dialog_shown \/ prompt = "device_ref")
        /\ decision_dialog_shown' = (decision_dialog_shown \/ prompt = "decision")
        /\ idle_queue' = IF prompt # "none" THEN Append(idle_queue, prompt)
                                            ELSE idle_queue
        /\ stay_prompts' = IF prompt # "none" THEN stay_prompts + 1 ELSE stay_prompts
        /\ sync_schedule' = schedule
        /\ gdrive_info' = load_gdrive_info(gdriveFile, gdrive_info)
        /\ Ran("update_all", <<>>)
        /\ UNCHANGED <<files, answers, dialog_stack, reset_timers, config, configFile,
                       hour, syncRunning, syncLock, progress, timers, dimvars,
                       config_disk, gdriveFile, fetchers, finished,
                   services>>

\* update_all, the schedule label kept by its kind
UpdateAll == UpdateAllShowing(UpdateSync(config, hour))

\* update_all, the schedule label kept with its numbers
UpdateAllTimed == UpdateAllShowing(UpdateSyncText(config, hour, minute))

-----------------------------------------------------------------------------
(* reset_to_waiting, check_usb_removed, on_eject *)

ResetView(v) ==
    [v EXCEPT !.status_text = TextWaiting,
              !.progress = "0%", !.fraction = <<0>>,
              !.eject_sensitive = FALSE, !.cancel_visible = FALSE]

\* The latches after reset_to_waiting has run
LatchAfterReset(latch) == FALSE

reset_to_waiting ==
    /\ view' = ResetView(view)
    /\ transfer_done' = FALSE
    /\ device_ref_dialog_shown' = LatchAfterReset(device_ref_dialog_shown)
    /\ decision_dialog_shown' = LatchAfterReset(decision_dialog_shown)

\* rm -f that takes the two answer files along
StatusFileArgs_WithAnswers == {"status", "progress", "lock", "decision", "device_ref"}

\* The files named on the command line of sudo rm -f
StatusFileArgs == {"status", "progress", "lock"}

\* rm -f of the named files; the other files stay as they are
Remove(names) ==
    /\ statusFile' = IF "status" \in names THEN Absent ELSE statusFile
    /\ progressFile' = IF "progress" \in names THEN <<>> ELSE progressFile
    /\ lockFile' = IF "lock" \in names THEN FALSE ELSE lockFile
    /\ decisionFile' = IF "decision" \in names THEN Absent ELSE decisionFile
    /\ deviceRefFile' = IF "device_ref" \in names THEN Absent ELSE deviceRefFile

RemoveStatusFiles ==
    /\ Remove(StatusFileArgs)
    /\ stay_prompts' = IF statusFile = Absent THEN stay_prompts ELSE 0

\* The 3 s timer armed by on_eject fires
ResetTimerFires ==
    /\ reset_timers > 0
    /\ reset_timers' = reset_timers - 1
    /\ reset_to_waiting
    /\ Ran("reset_to_waiting", <<>>)
    /\ UNCHANGED <<housekeeping, files, answers, idle_queue, dialog_stack, syncvars, stay_prompts>>

\* check_usb_removed resets iff this holds; usb_present is what lsblk reports
AutoResetDue(td, usb_present) == td /\ ~usb_present

CheckUsbRemoved ==
    \E usb_present \in BOOLEAN :
        IF AutoResetDue(transfer_done, usb_present)
        THEN /\ RemoveStatusFiles
             /\ reset_to_waiting
             /\ Ran("check_usb_removed:reset", <<"rm status progress lock">>)
             /\ UNCHANGED <<housekeeping, loop, syncvars>>
        ELSE UNCHANGED vars

OnEject ==
    /\ view.eject_sensitive
    /\ dialog_stack = <<>>
    /\ reset_timers < MaxTimers
    /\ RemoveStatusFiles
    /\ transfer_done' = FALSE
    /\ decision_dialog_shown' = FALSE
    /\ device_ref_dialog_shown' = FALSE
    /\ view' = [view EXCEPT !.status_text = TextEjected, !.eject_sensitive = FALSE]
    /\ reset_timers' = reset_timers + 1
    /\ Ran("on_eject", <<"umount /media/pebl/*", "umount /media/usb-source",
                         "rm status progress lock">>)
    /\ UNCHANGED <<housekeeping, idle_queue, dialog_stack, syncvars>>

-----------------------------------------------------------------------------
(* on_cancel: the click opens the confirmation, the response does the work *)

Top(stack) == stack[Len(stack)]
Pop(stack) == SubSeq(stack, 1, Len(stack) - 1)

OnCancelClick ==
    /\ view.cancel_visible
    /\ dialog_stack = <<>>
    /\ Len(idle_queue) + Len(dialog_stack) < MaxPending
    /\ dialog_stack' = Append(dialog_stack, "cancel_confirm")
    /\ Ran("on_cancel:ask", <<>>)
    /\ UNCHANGED <<housekeeping, files, answers, flags, view, idle_queue, reset_timers, syncvars,
                   stay_prompts>>

CancelCommands ==
    <<"pkill -9 on-usb-insert.sh", "pkill -9 rsync", "write status CANCELLED",
      "write progress cancelled", "rm lock">>

CancelledView(v) ==
    [v EXCEPT !.status_text = TextCancelled,
              !.progress = "Cancelled", !.fraction = <<0>>,
              !.eject_sensitive = TRUE,
              !.cancel_visible = FALSE]

\* on_cancel without its writes: the files stay as the script left them
CancelWrites_Untouched == <<statusFile, progressFile, lockFile>>

\* The files on_cancel leaves behind: <<status, progress, lock>>
CancelWrites == <<"CANCELLED", <<CancelledRecord>>, FALSE>>

OnCancelYes ==
    /\ dialog_stack # <<>> /\ Top(dialog_stack) = "cancel_confirm"
    /\ dialog_stack' = Pop(dialog_stack)
    /\ statusFile' = CancelWrites[1]
    /\ progressFile' = CancelWrites[2]
    /\ lockFile' = CancelWrites[3]
    /\ stay_prompts' = IF statusFile = CancelWrites[1] THEN stay_prompts ELSE 0
    /\ transfer_done' = TRUE
    /\ device_ref_dialog_shown' = FALSE
    /\ decision_dialog_shown' = FALSE
    /\ view' = CancelledView(view)
    /\ Ran("on_cancel:yes", CancelCommands)
    /\ UNCHANGED <<housekeeping, answers, idle_queue, reset_timers, syncvars>>

OnCancelNo ==
    /\ dialog_stack # <<>> /\ Top(dialog_stack) = "cancel_confirm"
    /\ dialog_stack' = Pop(dialog_stack)
    /\ Ran("on_cancel:no", <<>>)
    /\ UNCHANGED <<housekeeping, files, answers, flags, view, idle_queue, reset_timers, syncvars,
                   stay_prompts>>

-----------------------------------------------------------------------------
(* The prompts: the idle callback opens the dialog, the operator answers it *)

RunIdle ==
    /\ idle_queue # <<>>
    /\ idle_queue' = Tail(idle_queue)
    /\ dialog_stack' = Append(dialog_stack, Head(idle_queue))
    /\ Ran("idle:" \o Head(idle_queue), <<>>)
    /\ UNCHANGED <<housekeeping, files, answers, flags, view, reset_timers, syncvars, stay_prompts>>

\* How a dialog.run() can end: the two buttons, or the window being closed
Responses == {"1", "2", "DELETE_EVENT"}

\* decision = "skip" if response == 1 else "overwrite"
DecisionOf(response) == IF response = "1" THEN "skip" ELSE "overwrite"

\* How open(..., 'w') and the write end; what they raise is swallowed
WriteOutcomes == {"ok", "open fails"}

AnswerDecision(offered, outcomes) ==
    \E response \in offered, outcome \in outcomes :
        /\ dialog_stack # <<>> /\ Top(dialog_stack) = "decision"
        /\ dialog_stack' = Pop(dialog_stack)
        /\ decisionFile' = IF outcome = "ok" THEN DecisionOf(response) ELSE decisionFile
        /\ Ran("show_decision_dialog:" \o response, <<>>)
        /\ UNCHANGED <<housekeeping, files, deviceRefFile, flags, view, idle_queue, reset_timers,
                       syncvars, stay_prompts>>

EntryTexts == {"", "Camera_1", " Camera_1 "}

\* entry.get_text().strip()
Strip(text) == IF text = " Camera_1 " THEN "Camera_1" ELSE text

DeviceRefOf(response, text) == IF response = "1" THEN Strip(text) ELSE ""

AnswerDeviceRef(offered, texts, outcomes) ==
    \E response \in offered, text \in texts, outcome \in outcomes :
        /\ dialog_stack # <<>> /\ Top(dialog_stack) = "device_ref"
        /\ dialog_stack' = Pop(dialog_stack)
        /\ deviceRefFile' = IF outcome = "ok" THEN DeviceRefOf(response, text)
                                              ELSE deviceRefFile
        /\ Ran("show_device_reference_dialog", <<>>)
        /\ UNCHANGED <<housekeeping, files, decisionFile, flags, view, idle_queue, reset_timers,
                       syncvars, stay_prompts>>

-----------------------------------------------------------------------------
(* The behaviours of the transfer panel *)

Next ==
    \/ ExternalWriteStatus
    \/ ExternalWriteProgress
    \/ ExternalLock
    \/ UpdateAll
    \/ CheckUsbRemoved
    \/ ResetTimerFires
    \/ OnEject
    \/ OnCancelClick
    \/ OnCancelYes
    \/ OnCancelNo
    \/ RunIdle
    \/ AnswerDecision({"1"}, {"ok"})
    \/ AnswerDeviceRef({"1"}, {" Camera_1 "}, {"ok"})

Spec == Init /\ [][Next]_vars

-----------------------------------------------------------------------------
(* The sync schedule handlers *)

\* How save_config's write ends: it succeeds, open() raises (the file is left
\* as it was), or open() has truncated the file and json.dump or the close raises
DiskOutcomes == {"ok", "open fails", "write fails"}

\* save_config(self.config); what it raises is swallowed
save_config ==
    configFile' = CASE config_disk = "ok"         -> <<config'>>
                    [] config_disk = "open fails" -> configFile
                    [] OTHER                      -> <<>>

\* load_config(): the record in the file, or a copy of DEFAULT_CONFIG when the
\* file is absent or json.load raises
load_config(file) ==
    IF file = <<>> THEN DEFAULT_CONFIG ELSE file[1]

\* apply_sync_mode_change under the configuration the handler has just stored
apply_sync_mode_change(op) ==
    IF ApplyStopsSync(config', hour)
    THEN /\ syncRunning' = FALSE
         /\ syncLock' = FALSE
         /\ Ran(op, StopSyncCommands)
    ELSE /\ UNCHANGED <<syncRunning, syncLock>>
         /\ Ran(op, <<>>)

OnSyncMode24hr ==
    /\ dialog_stack = <<>>
    /\ config' = [config EXCEPT !.mode = "24hr"]
    /\ save_config
    /\ mode_button' = update_sync_mode_buttons(config')
    /\ Ran("on_sync_mode_24hr", <<>>)
    /\ UNCHANGED <<offstage, files, answers, flags, view, loop, hour, syncRunning, syncLock,
                   sync_schedule, stay_prompts>>

\* on_sync_mode_night that stores the mode and leaves the hours as they are
OnSyncModeNight_KeepsHours ==
    /\ dialog_stack = <<>>
    /\ config' = [config EXCEPT !.mode = "night"]
    /\ save_config
    /\ mode_button' = update_sync_mode_buttons(config')
    /\ apply_sync_mode_change("on_sync_mode_night")
    /\ UNCHANGED <<offstage, files, answers, flags, view, loop, hour, sync_schedule, stay_prompts>>

OnSyncModeNight ==
    /\ dialog_stack = <<>>
    /\ config' = [mode |-> "night", start_hour |-> NIGHT_START, end_hour |-> NIGHT_END]
    /\ save_config
    /\ mode_button' = update_sync_mode_buttons(config')
    /\ apply_sync_mode_change("on_sync_mode_night")
    /\ UNCHANGED <<offstage, files, answers, flags, view, loop, hour, sync_schedule, stay_prompts>>

\* The Custom dialog ends with Save on the spin values start, end (the operator
\* picks them from starts, ends); ending it with Cancel changes nothing.
OnSyncModeCustom(starts, ends) ==
    /\ dialog_stack = <<>>
    /\ \E save \in BOOLEAN :
          IF save
          THEN \E start \in starts, end \in ends :
               /\ config' = [mode |-> "scheduled", start_hour |-> start, end_hour |-> end]
               /\ save_config
               /\ mode_button' = update_sync_mode_buttons(config')
               /\ apply_sync_mode_change("on_sync_mode_custom")
               /\ UNCHANGED <<offstage, files, answers, flags, view, loop, hour, sync_schedule,
                              stay_prompts>>
          ELSE UNCHANGED vars

\* The Settings dialog ends with Save on the radio button and the spin values
OnSettings(starts, ends) ==
    /\ dialog_stack = <<>>
    /\ \E save \in BOOLEAN :
          IF save
          THEN \E mode_24hr \in BOOLEAN, start \in starts, end \in ends :
               /\ config' = [mode |-> IF mode_24hr THEN "24hr" ELSE "scheduled",
                             start_hour |-> start, end_hour |-> end]
               /\ save_config
               /\ Ran("on_settings", <<>>)
               /\ UNCHANGED <<housekeeping, files, answers, flags, view, loop, hour, syncRunning,
                              syncLock, sync_schedule, stay_prompts>>
          ELSE UNCHANGED vars

(* The environment of the schedule: the clock and the external sync client *)

Tick ==
    /\ hour' = (hour + 1) % HoursPerDay
    /\ UNCHANGED <<housekeeping, files, answers, flags, view, loop, config, configFile, syncRunning,
                   syncLock, sync_schedule, stay_prompts>>
    /\ EnvStep

SyncStarts ==
    /\ ~syncRunning
    /\ syncRunning' = TRUE
    /\ syncLock' = TRUE
    /\ UNCHANGED <<housekeeping, files, answers, flags, view, loop, config, configFile, hour,
                   sync_schedule, stay_prompts>>
    /\ EnvStep

SyncInit ==
    /\ statusFile = Absent
    /\ progressFile = <<>>
    /\ lockFile = FALSE
    /\ decisionFile = Absent
    /\ deviceRefFile = Absent
    /\ transfer_done = FALSE
    /\ decision_dialog_shown = FALSE
    /\ device_ref_dialog_shown = FALSE
    /\ view = WaitingView
    /\ idle_queue = <<>>
    /\ dialog_stack = <<>>
    /\ reset_timers = 0
    /\ config = DEFAULT_CONFIG
    /\ configFile = <<>>
    /\ hour \in Hours
    /\ minute = 0
    /\ refresh_timers = 1
    /\ mode_button = update_sync_mode_buttons(config)
    /\ syncRunning = FALSE
    /\ syncLock = FALSE
    /\ sync_schedule = [mode_label |-> "", text |-> ""]
    /\ lastOp = "init"
    /\ at_entry = [phase |-> Absent, mode |-> config.mode, sync |-> syncRunning]
    /\ effects = <<>>
    /\ stay_prompts = 0
    /\ HousekeepingInit

\* The spin values the operator picks in SyncSpec
WindowHours == {0, 6, 9, 17, 22}

SyncNext ==
    \/ Tick
    \/ SyncStarts
    \/ UpdateAll
    \/ OnSyncMode24hr
    \/ OnSyncModeNight
    \/ OnSyncModeCustom(WindowHours, WindowHours)
    \/ OnSettings(WindowHours, WindowHours)

SyncSpec == SyncInit /\ [][SyncNext]_vars

-----------------------------------------------------------------------------
(* Every window at every hour: the configuration is any window a Custom save *)
(* can have stored, the operator re-saves it unchanged, the poll renders it. *)

WindowInit ==
    /\ statusFile = Absent
    /\ progressFile = <<>>
    /\ lockFile = FALSE
    /\ decisionFile = Absent
    /\ deviceRefFile = Absent
    /\ transfer_done = FALSE
    /\ decision_dialog_shown = FALSE
    /\ device_ref_dialog_shown = FALSE
    /\ view = WaitingView
    /\ idle_queue = <<>>
    /\ dialog_stack = <<>>
    /\ reset_timers = 0
    /\ \E start \in Hours, end \in Hours :
          config = [mode |-> "scheduled", start_hour |-> start, end_hour |-> end]
    /\ configFile = <<config>>
    /\ hour \in Hours
    /\ minute \in Minutes
    /\ refresh_timers = 1
    /\ mode_button = update_sync_mode_buttons(config)
    /\ syncRunning = TRUE
    /\ syncLock = TRUE
    /\ sync_schedule = [mode_label |-> "", text |-> "", next_sync |-> <<>>]
    /\ lastOp = "init"
    /\ at_entry = [phase |-> Absent, mode |-> config.mode, sync |-> syncRunning]
    /\ effects = <<>>
    /\ stay_prompts = 0
    /\ HousekeepingInit

WindowNext ==
    \/ UpdateAllTimed
    \/ OnSyncModeNight
    \/ OnSyncModeCustom({config.start_hour}, {config.end_hour})
    \/ SyncStarts

WindowSpec == WindowInit /\ [][WindowNext]_vars

-----------------------------------------------------------------------------
(* Reading the progress file.  The content of PROGRESS_FILE is a sequence of *)
(* tokens: the braces, the text `"file_types": `, complete `"key": value`    *)
(* members, and a member cut short by the end of the file.                   *)

Tok(t, key, ty, val) == [t |-> t, key |-> key, ty |-> ty, val |-> val]

Open         == Tok("{", "", "", "")
Close        == Tok("}", "", "", "")
FileTypesKey == Tok("key", "file_types", "", "")
Field(key, ty, val) == Tok("field", key, ty, val)
Cut(key, ty, val)   == Tok("cut", key, ty, val)
Scalar(ty, val)     == Tok("scalar", "", ty, val)

MinOf(S) == CHOOSE x \in S : \A y \in S : x <= y
MaxOf(S) == CHOOSE x \in S : \A y \in S : x >= y

\* re.sub(r'"file_types": \{[^}]*\}+', '"file_types": {}', content): from the
\* key and its brace up to the first closing brace and every closing brace
\* that follows it directly.
RECURSIVE FixFileTypes(_)
FixFileTypes(c) ==
    LET starts == { i \in 1 .. (Len(c) - 1) :
                      /\ c[i] = FileTypesKey
                      /\ c[i + 1] = Open
                      /\ \E j \in (i + 2) .. Len(c) : c[j] = Close }
    IN  IF starts = {} THEN c
        ELSE LET i == MinOf(starts)
                 j == MinOf({ n \in (i + 2) .. Len(c) : c[n] = Close })
                 k == MaxOf({ m \in j .. Len(c) : \A n \in j .. m : c[n] = Close })
             IN  SubSeq(c, 1, i - 1) \o <<FileTypesKey, Open, Close>>
                     \o FixFileTypes(SubSeq(c, k + 1, Len(c)))

\* Nesting depth in front of token i
Depth(c, i) ==
    Cardinality({ n \in 1 .. (i - 1) : c[n] = Open })
        - Cardinality({ n \in 1 .. (i - 1) : c[n] = Close })

\* The content is one JSON object
IsObject(c) ==
    /\ Len(c) >= 2
    /\ c[1] = Open
    /\ \A i \in 1 .. Len(c) :
          CASE c[i] = Open      -> i = 1 \/ c[i - 1].t = "key"
            [] c[i] = Close     -> /\ Depth(c, i) >= 1
                                   /\ c[i - 1].t # "key"
                                   /\ (Depth(c, i) = 1 <=> i = Len(c))
            [] c[i].t = "key"   -> Depth(c, i) >= 1 /\ i < Len(c) /\ c[i + 1] = Open
            [] c[i].t = "field" -> Depth(c, i) >= 1
            [] OTHER            -> FALSE

\* The value a dict built from the members of the outer object holds for key
\* (the last member wins)
TopLevel(c, key) ==
    LET at == { i \in 1 .. Len(c) :
                  c[i].t = "field" /\ c[i].key = key /\ Depth(c, i) = 1 }
    IN  IF at = {} THEN Missing ELSE Value(c[MaxOf(at)].ty, c[MaxOf(at)].val)

\* The members of the file_types mapping of the object c
FileTypes(c) ==
    { c[i] : i \in { n \in 1 .. Len(c) : c[n].t = "field" /\ Depth(c, n) > 1 } }

\* json.loads(content): a dict, another JSON value, or JSONDecodeError
json_loads(c) ==
    IF Len(c) = 1 /\ c[1].t = "scalar"
    THEN [kind |-> "other", fields |-> [k \in ProgressKeys |-> Missing],
          file_types |-> {}]
    ELSE IF IsObject(c)
    THEN [kind |-> "dict", fields |-> [k \in ProgressKeys |-> TopLevel(c, k)],
          file_types |-> FileTypes(c)]
    ELSE [kind |-> "JSONDecodeError", fields |-> [k \in ProgressKeys |-> Missing],
          file_types |-> {}]

\* re.search(r'"key":\s*(\d+)') for ty "int", r'"key":\s*"([^"]*)"' for
\* ty "str": the first member with that key whose text the pattern accepts.  A
\* number cut short still shows its digits; a string cut short has no closing
\* quote.
Search(c, key, ty) ==
    LET at == { i \in 1 .. Len(c) :
                  /\ c[i].key = key /\ c[i].ty = ty
                  /\ (c[i].t = "field" \/ (c[i].t = "cut" /\ ty = "int")) }
    IN  IF at = {} THEN Missing ELSE Value(ty, c[MinOf(at)].val)

OrElse(found, default) == IF found = Missing THEN default ELSE found

\* The record without anything extracted: every key at its default
ExtractProgress_Defaults(c) ==
    [kind |-> "dict",
     fields |-> [k \in ProgressKeys |->
                   CASE k = "percent"      -> Value("int", "0")
                     [] k = "message"      -> Value("str", "Transferring...")
                     [] k = "current_file" -> Value("str", "")
                     [] k = "status"       -> Value("str", "transferring")
                     [] k = "speed"        -> Value("str", "--")],
     file_types |-> {}]

\* The record update_transfer builds from the raw content after JSONDecodeError
ExtractProgress(c) ==
    [kind |-> "dict",
     fields |-> [k \in ProgressKeys |->
                   CASE k = "percent"      -> OrElse(Search(c, k, "int"), Value("int", "0"))
                     [] k = "message"      -> OrElse(Search(c, k, "str"), Value("str", "Transferring..."))
                     [] k = "current_file" -> OrElse(Search(c, k, "str"), Value("str", ""))
                     [] k = "status"       -> OrElse(Search(c, k, "str"), Value("str", "transferring"))
                     [] k = "speed"        -> OrElse(Search(c, k, "str"), Value("str", "--"))],
     file_types |-> {}]

\* open() or read() of the progress file raising (caught by the bare except)
ReadOutcomes == {"read", "OSError"}

\* `progress` at line 1016 for the file state f (<<>> when os.path.exists is
\* False, <<content>> otherwise)
ParseProgress(f, outcome) ==
    IF f = <<>> \/ outcome = "OSError" THEN EmptyProgress
    ELSE LET loaded == json_loads(FixFileTypes(f[1]))
         IN  IF loaded.kind = "JSONDecodeError" THEN ExtractProgress(f[1]) ELSE loaded

\* progress.get(key, default)
Get(p, key, default) == OrElse(p.fields[key], default)

\* TRUE iff update_transfer raises between line 1017 and its end
UseRaises(status, p) ==
    \/ p.kind # "dict"
    \/ /\ status \in PulsePhases \cup {"PENDING_DECISION", "TRANSFERRING"}
       /\ Get(p, "message", Value("str", "")).ty # "str"
    \/ /\ status = "TRANSFERRING"
       /\ Get(p, "percent", Value("int", "0")).ty # "int"

\* The contents the transfer script and its interruptions leave in the file
Percent40   == Field("percent", "int", "40")
Message     == Field("message", "str", "Copying files")
CurrentFile == Field("current_file", "str", "IMG_0001.JPG")
Jpg         == Field("jpg", "int", "3")

WellFormed ==
    { <<Open, Percent40, FileTypesKey, Open, Jpg, Close, Message, CurrentFile, Close>>,
      <<Open, Percent40, Message, CurrentFile, FileTypesKey, Open, Jpg, Close, Close>> }

InsertAt(c, i, tok) == SubSeq(c, 1, i - 1) \o <<tok>> \o SubSeq(c, i, Len(c))
RemoveAt(c, i)      == SubSeq(c, 1, i - 1) \o SubSeq(c, i + 1, Len(c))

\* The braces of the file_types mapping in c: its opening brace and the first
\* closing brace after it
FileTypesBraces(c) ==
    LET o  == MinOf({ i \in 1 .. Len(c) : c[i] = Open /\ i > 1 })
        cl == MinOf({ i \in 1 .. Len(c) : c[i] = Close /\ i > o })
    IN  {o, cl}

\* file_types with a brace doubled or dropped
MalformedFileTypes ==
    UNION { { InsertAt(c, i, c[i]) : i \in FileTypesBraces(c) }
                \cup { RemoveAt(c, i) : i \in FileTypesBraces(c) } : c \in WellFormed }

\* A member cut short by the end of the file
CutShort(tok) ==
    CASE tok.ty = "int" -> Cut(tok.key, "int", "4")
      [] OTHER          -> Cut(tok.key, tok.ty, "")

\* A write caught half-way: a prefix of the content, ending on a whole token or
\* inside a member
Truncated ==
    UNION { { SubSeq(c, 1, n) : n \in 0 .. (Len(c) - 1) }
                \cup { Append(SubSeq(c, 1, n - 1), CutShort(c[n])) :
                          n \in { m \in 1 .. Len(c) : c[m].t = "field" } } : c \in WellFormed }

\* Valid JSON that is not the record the poll expects
UnexpectedShape ==
    { <<Scalar("null", "null")>>,
      <<Scalar("list", "[]")>>,
      <<Open, Close>>,
      <<Open, Field("percent", "str", "40"), Message, Close>>,
      <<Open, Percent40, Field("message", "null", "null"), Close>> }

Contents == WellFormed \cup MalformedFileTypes \cup Truncated \cup UnexpectedShape

\* The phases the read is exercised under
ReadPhases == {Absent, "SCANNING", "PENDING_DECISION", "TRANSFERRING", "COMPLETE",
               "FAILED"}

\* The external script (or anything else) leaves the files in some state
ExternalWritePhase ==
    \E p \in ReadPhases :
        /\ p # statusFile
        /\ statusFile' = p
        /\ stay_prompts' = 0
        /\ UNCHANGED <<progressFile, lockFile, answers, flags, view, loop, syncvars,
                       housekeeping>>
        /\ EnvStep

ExternalWriteContent ==
    \E f \in {<<>>} \cup { <<c>> : c \in Contents } :
        /\ f # progressFile
        /\ progressFile' = f
        /\ UNCHANGED <<statusFile, lockFile, answers, flags, view, loop, syncvars,
                       stay_prompts, housekeeping>>
        /\ EnvStep

\* int(text) of the digit strings that occur
IntOf(text) ==
    CASE text = "40" -> 40
      [] text = "4"  -> 4
      [] OTHER       -> 0

\* The widgets update_transfer has written when it raises on the record p: the
\* statements of the branch in front of the one that raises
RenderUntilRaise(status, v, p) ==
    CASE p.kind # "dict" -> v
      [] status \in PulsePhases ->
           [v EXCEPT !.status_text = PulseText(status),
                     !.progress = "pulse", !.fraction = <<>>,
                     !.eject_sensitive = FALSE,
                     !.cancel_visible = TRUE]
      [] status = "PENDING_DECISION" ->
           [v EXCEPT !.status_text = "Files Already Exist",
                     !.progress = "Waiting for input...", !.fraction = <<0>>]
      [] status = "TRANSFERRING" ->
           [v EXCEPT !.status_text = "Copying Files...",
                     !.progress = IF Get(p, "percent", Value("int", "0")).ty = "int"
                                  THEN p.fields["percent"].val \o "%"
                                  ELSE v.progress,
                     !.fraction = IF Get(p, "percent", Value("int", "0")).ty = "int"
                                  THEN <<IntOf(p.fields["percent"].val)>>
                                  ELSE v.fraction,
                     !.eject_sensitive = FALSE,
                     !.cancel_visible = TRUE]
      [] OTHER -> v

\* update_all on the raw files: update_transfer parses the progress file and
\* renders it, update_sync follows.  An exception leaves the callback without a
\* return value, and GLib removes a source whose callback did not return True.
UpdateAllReadingFiles ==
    \E outcome \in ReadOutcomes :
        LET status == ReadStatus(statusFile)
            parsed == ParseProgress(progressFile, outcome)
            raises == UseRaises(status, parsed)
            prompt == IF parsed.kind = "dict"
                      THEN PromptFor(status, device_ref_dialog_shown, decision_dialog_shown)
                      ELSE "none"
            pct    == Get(parsed, "percent", Value("int", "0"))
        IN  /\ "update_all" \in timers
            /\ prompt # "none" => Len(idle_queue) + Len(dialog_stack) < MaxPending
            /\ progress' = parsed
            /\ view' = IF raises THEN RenderUntilRaise(status, view, parsed)
                       ELSE RenderTransfer(status, view, 0, IntOf(pct.val), transfer_done)
            /\ transfer_done' = IF parsed.kind = "dict"
                                THEN TransferDoneAfter(status, transfer_done)
                                ELSE transfer_done
            /\ device_ref_dialog_shown' = (device_ref_dialog_shown \/ prompt = "device_ref")
            /\ decision_dialog_shown' = (decision_dialog_shown \/ prompt = "decision")
            /\ idle_queue' = IF prompt # "none" THEN Append(idle_queue, prompt)
                                                ELSE idle_queue
            /\ stay_prompts' = IF prompt # "none" THEN stay_prompts + 1 ELSE stay_prompts
            /\ IF raises
               THEN /\ timers' = timers \ {"update_all"}
                    /\ UNCHANGED <<sync_schedule, gdrive_info>>
                    /\ Ran("update_all:raised", <<>>)
               ELSE /\ timers' = timers
                    /\ sync_schedule' = UpdateSync(config, hour)
                    /\ gdrive_info' = load_gdrive_info(gdriveFile, gdrive_info)
                    /\ Ran(IF outcome = "read" THEN "update_all" ELSE "update_all:OSError",
                           <<>>)
            /\ UNCHANGED <<files, answers, dialog_stack, reset_timers, config, configFile,
                           hour, syncRunning, syncLock, dimvars, config_disk,
                           gdriveFile, fetchers, finished,
                   services>>

\* check_usb_removed and check_auto_dim come round: both end in `return True`
OtherTimerFires ==
    \E h \in timers \ {"update_all"} :
        /\ Ran(h, <<>>)
        /\ UNCHANGED <<files, answers, flags, view, loop, syncvars, stay_prompts,
                       housekeeping>>

ReadInit ==
    /\ statusFile = Absent
    /\ progressFile = <<>>
    /\ lockFile = FALSE
    /\ decisionFile = Absent
    /\ deviceRefFile = Absent
    /\ transfer_done = FALSE
    /\ decision_dialog_shown = FALSE
    /\ device_ref_dialog_shown = FALSE
    /\ view = WaitingView
    /\ idle_queue = <<>>
    /\ dialog_stack = <<>>
    /\ reset_timers = 0
    /\ config = DEFAULT_CONFIG
    /\ configFile = <<>>
    /\ hour = 12
    /\ minute = 0
    /\ refresh_timers = 1
    /\ mode_button = update_sync_mode_buttons(config)
    /\ syncRunning = FALSE
    /\ syncLock = FALSE
    /\ sync_schedule = [mode_label |-> "", text |-> ""]
    /\ lastOp = "init"
    /\ at_entry = [phase |-> Absent, mode |-> config.mode, sync |-> syncRunning]
    /\ effects = <<>>
    /\ stay_prompts = 0
    /\ HousekeepingInit

ReadNext ==
    \/ ExternalWritePhase
    \/ ExternalWriteContent
    \/ UpdateAllReadingFiles
    \/ OtherTimerFires

ReadSpec == ReadInit /\ [][ReadNext]_vars

-----------------------------------------------------------------------------
(* Screen dimming: dim_screen, wake_screen, check_auto_dim *)

AUTO_DIM_SECONDS == 300

MaxClock   == 450
ClockSteps == {10, 150}

\* How a set_brightness call ends: the level reaches the brightness file (by
\* sudo or by the direct write of the fallback), or neither write succeeds
BrightnessOutcomes == {"written", "failed"}

\* The write set_brightness(level) issues: none without a backlight device
BrightnessWrite(level) ==
    IF backlight_path THEN <<"echo " \o ToString(level) \o " > brightness">> ELSE <<>>

set_brightness(level, outcome) ==
    brightness' = IF backlight_path /\ outcome = "written" THEN level ELSE brightness

\* dim_screen acts (sets is_dimmed, calls set_brightness) whatever the flag
DimScreenActs_Always(dimmed) == TRUE

\* dim_screen acts only `if not self.is_dimmed`
DimScreenActs(dimmed) == ~dimmed

dim_screen(op, outcome) ==
    IF DimScreenActs(is_dimmed)
    THEN /\ is_dimmed' = TRUE
         /\ set_brightness(BRIGHTNESS_DIM, outcome)
         /\ dims_since_wake' = dims_since_wake + 1
         /\ Ran(op \o ":dim", BrightnessWrite(BRIGHTNESS_DIM))
    ELSE /\ UNCHANGED <<is_dimmed, brightness, dims_since_wake>>
         /\ Ran(op, <<>>)

\* check_auto_dim calls dim_screen whenever it is not dimmed, idle or not
DimDue_Eager(dimmed, now, last) == ~dimmed

\* check_auto_dim calls dim_screen iff this holds
DimDue(dimmed, now, last) == ~dimmed /\ now - last >= AUTO_DIM_SECONDS

CheckAutoDim ==
    \E outcome \in BrightnessOutcomes :
        /\ "check_auto_dim" \in timers
        /\ IF DimDue(is_dimmed, monotonic_time, last_activity_time)
           THEN dim_screen("check_auto_dim", outcome)
           ELSE /\ UNCHANGED <<is_dimmed, brightness, dims_since_wake>>
                /\ Ran("check_auto_dim", <<>>)
        /\ UNCHANGED <<files, answers, flags, view, loop, syncvars, stay_prompts,
                       progress, timers, last_activity_time, monotonic_time,
                       backlight_path, config_disk, quota,
                   services>>

\* The Dim button
OnDimScreen ==
    \E outcome \in BrightnessOutcomes :
        /\ dim_screen("on_dim_screen", outcome)
        /\ UNCHANGED <<files, answers, flags, view, loop, syncvars, stay_prompts,
                       progress, timers, last_activity_time, monotonic_time,
                       backlight_path, config_disk, quota,
                   services>>

\* wake_screen; on_activity calls nothing else
wake_screen(outcome) ==
    /\ IF is_dimmed
       THEN /\ is_dimmed' = FALSE
            /\ set_brightness(BRIGHTNESS_MAX, outcome)
            /\ dims_since_wake' = 0
            /\ Ran("on_activity:wake", BrightnessWrite(BRIGHTNESS_MAX))
       ELSE /\ UNCHANGED <<is_dimmed, brightness, dims_since_wake>>
            /\ Ran("on_activity", <<>>)
    /\ last_activity_time' = monotonic_time

OnActivity ==
    \E outcome \in BrightnessOutcomes :
        /\ wake_screen(outcome)
        /\ UNCHANGED <<files, answers, flags, view, loop, syncvars, stay_prompts,
                       progress, timers, monotonic_time, backlight_path, config_disk,
                       quota,
                   services>>

\* Time passes
ClockAdvances ==
    \E d \in ClockSteps :
        /\ monotonic_time + d <= MaxClock
        /\ monotonic_time' = monotonic_time + d
        /\ UNCHANGED <<files, answers, flags, view, loop, syncvars, stay_prompts,
                       progress, timers, is_dimmed, last_activity_time, backlight_path,
                       brightness, dims_since_wake, config_disk, quota,
                   services>>
        /\ EnvStep

DimInit ==
    /\ statusFile = Absent
    /\ progressFile = <<>>
    /\ lockFile = FALSE
    /\ decisionFile = Absent
    /\ deviceRefFile = Absent
    /\ transfer_done = FALSE
    /\ decision_dialog_shown = FALSE
    /\ device_ref_dialog_shown = FALSE
    /\ view = WaitingView
    /\ idle_queue = <<>>
    /\ dialog_stack = <<>>
    /\ reset_timers = 0
    /\ config = DEFAULT_CONFIG
    /\ configFile = <<>>
    /\ hour = 12
    /\ minute = 0
    /\ refresh_timers = 1
    /\ mode_button = update_sync_mode_buttons(config)
    /\ syncRunning = FALSE
    /\ syncLock = FALSE
    /\ sync_schedule = [mode_label |-> "", text |-> ""]
    /\ lastOp = "init"
    /\ at_entry = [phase |-> Absent, mode |-> config.mode, sync |-> syncRunning]
    /\ effects = <<>>
    /\ stay_prompts = 0
    /\ progress = EmptyProgress
    /\ timers = PeriodicHandlers
    /\ is_dimmed = FALSE
    /\ last_activity_time = 0
    /\ monotonic_time = 0
    /\ backlight_path \in BOOLEAN
    /\ brightness = BRIGHTNESS_MAX
    /\ dims_since_wake = 0
    /\ config_disk = "ok"
    /\ gdriveFile = <<>>
    /\ gdrive_info = <<>>
    /\ fetchers = <<>>
    /\ finished = {}
    /\ notificationsFile = <<>>
    /\ reply = [path |-> "", code |-> 0, body |-> <<>>]
    /\ storage = [hdd |-> "none", usb_present |-> FALSE, usb_mounted |-> FALSE]
    /\ report = [attempts |-> <<>>, mounted_devices |-> <<>>, errors |-> <<>>,
                 message |-> [kind |-> "", items |-> <<>>]]

DimNext ==
    \/ ClockAdvances
    \/ CheckAutoDim
    \/ OnDimScreen
    \/ OnActivity

DimSpec == DimInit /\ [][DimNext]_vars

-----------------------------------------------------------------------------
(* The quota cache: fetch_gdrive_info in its threads, load_gdrive_info in the *)
(* poll                                                                       *)

MaxFetchers == 2

\* How a remote query ends: exit code 0, another exit code, or TimeoutExpired
QueryOutcomes == {"ok", "failed", "timeout"}

NewFetcher ==
    [pc |-> "about", rec |-> [used |-> 0, cloud_files |-> 0], failed |-> FALSE]

MaxRefreshTimers == 2

\* start_gdrive_info_fetch run by a 5 min timer: the source that fired is
\* removed (return False) and a new one is added
StartGdriveInfoFetch ==
    /\ refresh_timers > 0
    /\ Len(fetchers) < MaxFetchers
    /\ fetchers' = Append(fetchers, NewFetcher)
    /\ Ran("start_gdrive_info_fetch", <<>>)
    /\ UNCHANGED <<files, answers, flags, view, loop, syncvars, stay_prompts,
                   progress, timers, dimvars, config_disk, gdriveFile, gdrive_info,
                   finished,
                   services>>

QuotaFrame ==
    UNCHANGED <<files, answers, flags, view, loop, syncvars, stay_prompts, progress,
                timers, dimvars, config_disk, gdrive_info,
                   services>>

\* rclone about: anything but exit code 0 ends the refresh without a write
FetchAbout ==
    \E i \in DOMAIN fetchers, outcome \in QueryOutcomes, used \in QuotaUsed :
        /\ fetchers[i].pc = "about"
        /\ fetchers' = IF outcome = "ok"
                       THEN [fetchers EXCEPT ![i].pc = "size", ![i].rec.used = used]
                       ELSE RemoveAt(fetchers, i)
        /\ Ran("fetch_gdrive_info:about", <<>>)
        /\ UNCHANGED <<gdriveFile, finished>>
        /\ QuotaFrame

\* rclone size: a timeout raises and ends the refresh; another exit code leaves
\* cloud_count = 0 and the refresh goes on to write
FetchSize ==
    \E i \in DOMAIN fetchers, outcome \in QueryOutcomes :
        /\ fetchers[i].pc = "size"
        /\ fetchers' =
             CASE outcome = "ok" ->
                    [fetchers EXCEPT ![i].pc = "open", ![i].rec.cloud_files = CloudFiles]
               [] outcome = "failed" ->
                    [fetchers EXCEPT ![i].pc = "open", ![i].rec.cloud_files = 0,
                                     ![i].failed = TRUE]
               [] OTHER -> RemoveAt(fetchers, i)
        /\ Ran("fetch_gdrive_info:size", <<>>)
        /\ UNCHANGED <<gdriveFile, finished>>
        /\ QuotaFrame

\* open(GDRIVE_INFO_FILE, 'w') truncates the file
FetchOpen ==
    \E i \in DOMAIN fetchers :
        /\ fetchers[i].pc = "open"
        /\ gdriveFile' = <<>>
        /\ fetchers' = [fetchers EXCEPT ![i].pc = "write"]
        /\ Ran("fetch_gdrive_info:open", <<>>)
        /\ UNCHANGED finished
        /\ QuotaFrame

\* A write of text at offset 0 over what the file holds
WriteAt(file, text) ==
    text \o SubSeq(file, Len(text) + 1, Len(file))

\* json.dump and the close of the file: the text, shorter than any buffer on
\* its way, reaches the file in one write; the refresh ends
FetchWrite ==
    \E i \in DOMAIN fetchers :
        LET t == fetchers[i]
        IN  /\ t.pc = "write"
            /\ gdriveFile' = WriteAt(gdriveFile, Text(t.rec))
            /\ fetchers' = RemoveAt(fetchers, i)
            /\ finished' = finished \cup {t.rec}
            /\ Ran("fetch_gdrive_info:write", <<>>)
            /\ QuotaFrame

QuotaNext ==
    \/ StartGdriveInfoFetch
    \/ FetchAbout
    \/ FetchSize
    \/ FetchOpen
    \/ FetchWrite
    \/ UpdateAll

QuotaSpec == ReadInit /\ [][QuotaNext]_vars

-----------------------------------------------------------------------------
(* The configuration across restarts *)

\* The state of the disk under SYNC_CONFIG_FILE changes
DiskChanges ==
    /\ \E outcome \in DiskOutcomes \ {config_disk} : config_disk' = outcome
    /\ UNCHANGED <<files, answers, flags, view, loop, syncvars, stay_prompts, progress,
                   timers, dimvars, quota,
                   services>>
    /\ EnvStep

\* The process ends and starts again: __init__ on what the disk holds, after
\* clear_old_status
Restart ==
    /\ dialog_stack = <<>>
    /\ Remove(StatusFileArgs)
    /\ config' = load_config(configFile)
    /\ transfer_done' = FALSE
    /\ decision_dialog_shown' = FALSE
    /\ device_ref_dialog_shown' = FALSE
    /\ view' = WaitingView
    /\ idle_queue' = <<>>
    /\ dialog_stack' = <<>>
    /\ reset_timers' = 0
    /\ sync_schedule' = [mode_label |-> "", text |-> ""]
    /\ stay_prompts' = 0
    /\ progress' = EmptyProgress
    /\ timers' = PeriodicHandlers
    /\ is_dimmed' = FALSE
    /\ last_activity_time' = monotonic_time
    /\ dims_since_wake' = 0
    /\ gdrive_info' = <<>>
    /\ fetchers' = <<>>
    /\ lastOp' = "init"
    /\ mode_button' = update_sync_mode_buttons(config')
    /\ at_entry' = [phase |-> statusFile, mode |-> config'.mode, sync |-> syncRunning]
    /\ effects' = <<>>
    /\ refresh_timers' = 1
    /\ UNCHANGED <<configFile, hour, syncRunning, syncLock,
                   monotonic_time, backlight_path, brightness, config_disk,
                   gdriveFile, finished,
                   notificationsFile, reply, storage, report, minute>>

ConfigNext ==
    \/ DiskChanges
    \/ Restart
    \/ OnSyncMode24hr
    \/ OnSyncModeNight
    \/ OnSyncModeCustom(WindowHours, WindowHours)
    \/ OnSettings(WindowHours, WindowHours)

ConfigSpec == ReadInit /\ [][ConfigNext]_vars

\* The "mode" values of the sync-config.json that deploy_to_pi.py uploads
DeployedModes == {NoKey, "24hr", "night", "scheduled"}

\* deploy_to_pi.py puts a sync-config.json of its scripts directory in place
Deploy ==
    /\ \E mode \in DeployedModes :
          configFile' = <<[mode |-> mode, start_hour |-> NIGHT_START,
                           end_hour |-> NIGHT_END]>>
    /\ configFile' # configFile
    /\ UNCHANGED <<housekeeping, files, answers, flags, view, loop, config, hour,
                   syncRunning, syncLock, sync_schedule, stay_prompts>>
    /\ EnvStep

\* A deployed configuration is loaded, shown and changed with the mode buttons
ModeNext ==
    \/ Deploy
    \/ Restart
    \/ Tick
    \/ UpdateAll
    \/ OnSyncMode24hr
    \/ OnSyncModeNight
    \/ OnSyncModeCustom(WindowHours, WindowHours)

ModeSpec == ReadInit /\ [][ModeNext]_vars

\* The transfer panel of a coordinator that is started again now and then
StartupNext ==
    \/ Next
    \/ Restart

StartupSpec == Init /\ [][StartupNext]_vars

-----------------------------------------------------------------------------
(* status-server.py: StatusHandler *)

MaxLines == 12

\* notifications[-10:]
RECENT == 10

\* A line of NOTIFICATIONS_FILE: a JSON object, another JSON value, text that
\* is no JSON, or nothing but white space; id is its place in the file
LineKinds == {"object", "value", "garbage", "blank"}
Line(kind, id) == [kind |-> kind, id |-> id]
Parses(line) == line.kind \in {"object", "value"}

\* What STATUS_FILE holds in ServerSpec: absent, empty, or a token and a newline
StatusContents == {Absent, "", "TRANSFERRING", "COMPLETE"}

\* get_status
get_status(f, outcome) ==
    IF f = Absent THEN "IDLE"
    ELSE IF outcome = "OSError" THEN "IDLE"
    ELSE IF f = "" THEN "IDLE" ELSE f

\* get_notifications whose first bad line ends the loop
RECURSIVE ReadLines_StopAtBad(_, _, _)
ReadLines_StopAtBad(file, i, notifications) ==
    IF i > Len(file) THEN notifications
    ELSE IF file[i].kind = "blank" THEN ReadLines_StopAtBad(file, i + 1, notifications)
    ELSE IF Parses(file[i])
         THEN ReadLines_StopAtBad(file, i + 1, Append(notifications, file[i]))
         ELSE notifications

\* The loop of get_notifications from line i on
RECURSIVE ReadLines(_, _, _)
ReadLines(file, i, notifications) ==
    IF i > Len(file) THEN notifications
    ELSE IF file[i].kind = "blank" THEN ReadLines(file, i + 1, notifications)
    ELSE IF Parses(file[i])
         THEN ReadLines(file, i + 1, Append(notifications, file[i]))
         ELSE ReadLines(file, i + 1, notifications)

\* get_notifications: open() raising leaves the list empty
get_notifications(file, outcome) ==
    IF file = <<>> \/ outcome = "OSError" THEN <<>> ELSE ReadLines(file, 1, <<>>)

\* seq[-n:]
Last(seq, n) == SubSeq(seq, MaxOf({1, Len(seq) - n + 1}), Len(seq))

\* reversed(seq)
Reversed(seq) == [i \in 1 .. Len(seq) |-> seq[Len(seq) + 1 - i]]

\* The replacement fields str.format finds in HTML_TEMPLATE, in order: first
\* bodies of the style rules, which stand in single braces, then the four names
TemplateFields ==
    <<" box-sizing", " max-width", " text-align", "status_class", "status",
      "timestamp", "notifications">>

\* HTML_TEMPLATE.format(**args): <<the page>>, or <<>> when it raises KeyError
Format(args) ==
    IF \A i \in DOMAIN TemplateFields : TemplateFields[i] \in DOMAIN args
    THEN <<args>> ELSE <<>>

\* The loop of send_html_response over the notifications: it raises on one
\* that is no object (n.get)
NotifHtml(notifications) ==
    IF \E i \in DOMAIN notifications : notifications[i].kind # "object"
    THEN "raised"
    ELSE IF notifications = <<>> THEN "No recent activity" ELSE "entries"

\* send_json_response
send_json_response(status_outcome, notif_outcome) ==
    /\ reply' = [path |-> "/api/status", code |-> 200,
                 body |-> <<[status |-> get_status(statusFile, status_outcome),
                             timestamp |-> hour,
                             notifications |->
                                Last(get_notifications(notificationsFile, notif_outcome),
                                     RECENT)]>>]
    /\ lastOp' = IF notif_outcome = "read" THEN "send_json_response"
                                           ELSE "send_json_response:OSError"

\* send_html_response: the headers are out before anything can raise; the body
\* is written last
send_html_response(status_outcome, notif_outcome) ==
    LET status == get_status(statusFile, status_outcome)
        shown  == Last(get_notifications(notificationsFile, notif_outcome), RECENT)
        page   == IF NotifHtml(shown) = "raised" THEN <<>>
                  ELSE Format([status |-> status, status_class |-> status,
                               timestamp |-> hour,
                               notifications |->
                                  IF shown = <<>> THEN <<"No recent activity">>
                                                  ELSE Reversed(shown)])
    IN  /\ reply' = [path |-> "/", code |-> 200, body |-> page]
        /\ lastOp' = IF notif_outcome = "read" THEN "send_html_response"
                                               ELSE "send_html_response:OSError"

\* do_GET
DoGet ==
    \E path \in {"/api/status", "/"}, status_outcome \in ReadOutcomes,
       notif_outcome \in ReadOutcomes :
        /\ IF path = "/api/status"
           THEN send_json_response(status_outcome, notif_outcome)
           ELSE send_html_response(status_outcome, notif_outcome)
        /\ at_entry' = [phase |-> statusFile, mode |-> config.mode, sync |-> syncRunning]
        /\ effects' = <<>>
        /\ UNCHANGED <<files, answers, flags, view, loop, syncvars, stay_prompts,
                       progress, timers, dimvars, config_disk, quota, minute, refresh_timers,
                       mode_button,
                       notificationsFile, storage, report>>

\* What notify-user.sh has left in NOTIFICATIONS_FILE: up to MaxLines lines,
\* objects but for the lines at p and q
NotificationFiles ==
    { [i \in 1 .. n |-> Line(IF i = p THEN j ELSE IF i = q THEN k ELSE "object", i)] :
        n \in 0 .. MaxLines, p \in 0 .. MaxLines, q \in 0 .. MaxLines,
        j \in LineKinds, k \in LineKinds }

ServerInit ==
    /\ statusFile \in StatusContents
    /\ progressFile = <<>>
    /\ lockFile = FALSE
    /\ decisionFile = Absent
    /\ deviceRefFile = Absent
    /\ transfer_done = FALSE
    /\ decision_dialog_shown = FALSE
    /\ device_ref_dialog_shown = FALSE
    /\ view = WaitingView
    /\ idle_queue = <<>>
    /\ dialog_stack = <<>>
    /\ reset_timers = 0
    /\ config = DEFAULT_CONFIG
    /\ configFile = <<>>
    /\ hour = 12
    /\ minute = 0
    /\ refresh_timers = 1
    /\ mode_button = update_sync_mode_buttons(config)
    /\ syncRunning = FALSE
    /\ syncLock = FALSE
    /\ sync_schedule = [mode_label |-> "", text |-> ""]
    /\ lastOp = "init"
    /\ at_entry = [phase |-> statusFile, mode |-> config.mode, sync |-> syncRunning]
    /\ effects = <<>>
    /\ stay_prompts = 0
    /\ progress = EmptyProgress
    /\ timers = PeriodicHandlers
    /\ is_dimmed = FALSE
    /\ last_activity_time = 0
    /\ monotonic_time = 0
    /\ backlight_path = TRUE
    /\ brightness = BRIGHTNESS_MAX
    /\ dims_since_wake = 0
    /\ config_disk = "ok"
    /\ gdriveFile = <<>>
    /\ gdrive_info = <<>>
    /\ fetchers = <<>>
    /\ finished = {}
    /\ notificationsFile \in NotificationFiles
    /\ reply = [path |-> "", code |-> 0, body |-> <<>>]
    /\ storage = [hdd |-> "none", usb_present |-> FALSE, usb_mounted |-> FALSE]
    /\ report = [attempts |-> <<>>, mounted_devices |-> <<>>, errors |-> <<>>,
                 message |-> [kind |-> "", items |-> <<>>]]

ServerNext == DoGet

ServerSpec == ServerInit /\ [][ServerNext]_vars

-----------------------------------------------------------------------------
(* The prompts and their answers: every way a dialog can end, every way the *)
(* write can end                                                            *)

PromptNext ==
    \/ ExternalWriteStatus
    \/ UpdateAll
    \/ RunIdle
    \/ AnswerDecision(Responses, WriteOutcomes)
    \/ AnswerDeviceRef(Responses, EntryTexts, WriteOutcomes)

PromptSpec == Init /\ [][PromptNext]_vars

-----------------------------------------------------------------------------
(* on_remount, on_dismount_all *)

PRIMARY    == "/dev/sda1"
Alternates == <<"/dev/sda1", "/dev/sdb1">>

\* The devices `sudo mount <dev> /media/external-hdd` is run on, in order, as
\* long as it fails
Candidates == <<PRIMARY>> \o Alternates

UsbPartition == "sdc1"

\* results[k]: the k-th mount command exits with 0
MountResults == [DOMAIN Candidates -> BOOLEAN]

\* on_remount running every mount command, whatever the earlier ones gave
Tried_All(results) == Len(Candidates)

\* The number of mount commands on_remount runs
Tried(results) ==
    IF \E k \in DOMAIN results : results[k]
    THEN CHOOSE k \in DOMAIN results : results[k] /\ \A j \in 1 .. (k - 1) : ~results[j]
    ELSE Len(Candidates)

\* The entry of mounted_devices for the k-th command having succeeded
HddEntry(k) ==
    IF k = 1 THEN "External HDD" ELSE "External HDD (" \o Candidates[k] \o ")"

\* Step 1 of on_remount: the commands, the device now mounted, the entries of
\* mounted_devices and of errors
MountHdd(mounted, results) ==
    IF mounted # "none"
    THEN [commands |-> <<>>, attempts |-> <<>>, hdd |-> mounted,
          mounted_devices |-> <<"External HDD (already mounted)">>, errors |-> <<>>]
    ELSE LET n == Tried(results)
         IN  [commands |-> [k \in 1 .. n |-> "mount " \o Candidates[k]],
              attempts |-> [k \in 1 .. n |-> [dev |-> Candidates[k], ok |-> results[k]]],
              hdd |-> IF results[n] THEN Candidates[n] ELSE "none",
              mounted_devices |-> IF results[n] THEN <<HddEntry(n)>> ELSE <<>>,
              errors |-> IF results[n] THEN <<>> ELSE <<"External HDD not found">>]

\* Step 2 of on_remount: the USB partitions lsblk lists without a mount point
MountUsb(st, udisks_ok) ==
    IF st.usb_present /\ ~st.usb_mounted
    THEN [commands |-> <<"udisksctl mount " \o UsbPartition>>,
          usb_mounted |-> udisks_ok,
          mounted_devices |-> IF udisks_ok THEN <<"USB (" \o UsbPartition \o ")">>
                                           ELSE <<>>]
    ELSE [commands |-> <<>>, usb_mounted |-> st.usb_mounted, mounted_devices |-> <<>>]

\* "Show results"
RemountMessage(mounted_devices, errors) ==
    IF mounted_devices # <<>> THEN [kind |-> "Mounted", items |-> mounted_devices]
    ELSE IF errors # <<>> THEN [kind |-> "Errors", items |-> errors]
    ELSE [kind |-> "All devices already mounted", items |-> <<>>]

\* on_remount; of the threads it starts MaxFetchers are followed, of the timers
\* it adds MaxRefreshTimers
OnRemount ==
    \E results \in MountResults, udisks_ok \in BOOLEAN :
        LET hdd == MountHdd(storage.hdd, results)
            usb == MountUsb(storage, udisks_ok)
            mounted_devices == hdd.mounted_devices \o usb.mounted_devices
        IN  /\ dialog_stack = <<>>
            /\ storage' = [storage EXCEPT !.hdd = hdd.hdd, !.usb_mounted = usb.usb_mounted]
            /\ report' = [attempts |-> hdd.attempts,
                          mounted_devices |-> mounted_devices,
                          errors |-> hdd.errors,
                          message |-> RemountMessage(mounted_devices, hdd.errors)]
            /\ fetchers' = IF Len(fetchers) < MaxFetchers THEN Append(fetchers, NewFetcher)
                                                          ELSE fetchers
            /\ refresh_timers' = IF refresh_timers < MaxRefreshTimers
                                  THEN refresh_timers + 1 ELSE refresh_timers
            /\ Ran("on_remount", hdd.commands \o usb.commands)
            /\ UNCHANGED <<files, answers, flags, view, loop, syncvars, stay_prompts,
                           progress, timers, dimvars, config_disk, gdriveFile,
                           gdrive_info, finished, minute, mode_button, notificationsFile,
                           reply>>

\* The commands of on_dismount_all with the external HDD unmounted first
DismountCommands_HddFirst ==
    <<"umount /media/external-hdd", "pkill rclone", "pkill backup-to-gdrive", "sync",
      "umount /media/pebl/*", "umount /media/usb-source">>

\* The commands of on_dismount_all, in order
DismountCommands ==
    <<"pkill rclone", "pkill backup-to-gdrive", "sync",
      "umount /media/pebl/*", "umount /media/usb-source", "umount /media/external-hdd">>

\* How the "Prepare for Storage?" dialog can end
DismountResponses == {"YES", "NO", "DELETE_EVENT"}

\* on_dismount_all; an umount of a busy mount point fails
OnDismountAll ==
    \E response \in DismountResponses, busy \in BOOLEAN :
        /\ dialog_stack = <<>>
        /\ IF response = "YES"
           THEN /\ syncRunning' = FALSE
                /\ storage' = IF busy THEN storage
                              ELSE [storage EXCEPT !.hdd = "none", !.usb_mounted = FALSE]
                /\ report' = [report EXCEPT !.message =
                                 [kind |-> "All devices unmounted - safe to power off",
                                  items |-> <<>>]]
                /\ Ran("on_dismount_all:YES", DismountCommands)
           ELSE /\ UNCHANGED <<syncRunning, storage, report>>
                /\ Ran("on_dismount_all:declined", <<>>)
        /\ UNCHANGED <<files, answers, flags, view, loop, config, configFile, hour,
                       syncLock, sync_schedule, stay_prompts, progress, timers, dimvars,
                       config_disk, quota, minute, refresh_timers, mode_button, notificationsFile,
                       reply>>

\* Devices are plugged in and pulled out, and mounted and unmounted by others
DeviceChanges ==
    /\ \E hdd \in {"none"} \cup {Candidates[k] : k \in DOMAIN Candidates},
          present \in BOOLEAN, mounted \in BOOLEAN :
          /\ mounted => present
          /\ storage' = [hdd |-> hdd, usb_present |-> present, usb_mounted |-> mounted]
          /\ storage' # storage
    /\ UNCHANGED <<files, answers, flags, view, loop, syncvars, stay_prompts, progress,
                   timers, dimvars, config_disk, quota, minute, refresh_timers, mode_button,
                   notificationsFile, reply, report>>
    /\ EnvStep

MountNext ==
    \/ DeviceChanges
    \/ SyncStarts
    \/ OnRemount
    \/ OnDismountAll

MountSpec == ReadInit /\ [][MountNext]_vars

\* The refreshes of the quota cache: the timer, Remount, and the workers
RefreshNext ==
    \/ StartGdriveInfoFetch
    \/ OnRemount
    \/ FetchAbout
    \/ FetchSize
    \/ FetchOpen
    \/ FetchWrite

RefreshSpec == ReadInit /\ [][RefreshNext]_vars

-----------------------------------------------------------------------------
(* The decision gate *)

PendingPhases == {"PENDING_NAME", "PENDING_DECISION"}

\* C1: while the phase file continuously holds PENDING_DECISION (or
\* PENDING_NAME), the polls schedule exactly one prompt of that kind, whatever
\* check_usb_removed, the delayed reset_to_waiting of an earlier eject and the
\* operator's answer do in between.  Stated as what a run can refute in finitely
\* many steps: no stay ever sees a second prompt scheduled.  (That every
\* re-entry gets its prompt is C2.)
C1_OnePromptPerStay ==
    statusFile \in PendingPhases => stay_prompts <= 1

\* C2: once a poll has observed a phase other than PENDING_DECISION the
\* duplicate-resolution latch is clear (so the next entry prompts again), and
\* likewise for PENDING_NAME and the device-naming latch.
C2_LatchClearAfterPhaseAdvanced ==
    lastOp = "update_all" =>
        /\ (statusFile # "PENDING_DECISION" => ~decision_dialog_shown)
        /\ (statusFile # "PENDING_NAME" => ~device_ref_dialog_shown)

\* C3: no step clears a set latch and leaves the phase file holding the phase
\* that required it.
C3_LatchKeptWhilePhaseCurrent ==
    [][ /\ (decision_dialog_shown /\ ~decision_dialog_shown'
               => statusFile' # "PENDING_DECISION")
        /\ (device_ref_dialog_shown /\ ~device_ref_dialog_shown'
               => statusFile' # "PENDING_NAME") ]_vars

-----------------------------------------------------------------------------
(* Cancel, completion and auto-reset *)

KillCommands == <<"pkill -9 on-usb-insert.sh", "pkill -9 rsync">>

CancelConfirmedWhileTransferring ==
    lastOp = "on_cancel:yes" /\ at_entry.phase = "TRANSFERRING"

C5_CompletePersistsUntilTrigger ==
    [][ /\ (view.status_text = TextComplete /\ view'.status_text # TextComplete)
              => \/ lastOp' \in {"check_usb_removed:reset", "on_eject"}
                 \/ lastOp' = "update_all" /\ statusFile # "COMPLETE"
        /\ (view.status_text = TextComplete
              /\ lastOp' \in {"check_usb_removed:reset", "on_eject"})
              => statusFile' = Absent /\ progressFile' = <<>> /\ ~lockFile' ]_vars

\* C6: check_usb_removed never deletes the files and resets the panel while the
\* phase file holds an active phase.
C6_AutoResetOnlyWhenTerminal ==
    lastOp = "check_usb_removed:reset" => at_entry.phase \notin ActivePhases

-----------------------------------------------------------------------------
(* The sync schedule *)

\* In-window as the specification defines it for a window start..end at hour h
InWindow(h, start, end) ==
    IF start <= end THEN start <= h /\ h < end
                    ELSE h >= start \/ h < end

SyncStopped == effects = StopSyncCommands /\ ~syncRunning /\ ~syncLock

CustomSavedFromContinuous ==
    /\ lastOp = "on_sync_mode_custom"
    /\ at_entry.mode = "24hr"
    /\ at_entry.sync
    /\ ~InWindow(hour, config.start_hour, config.end_hour)

C8_EveryModeChangeStopsSync ==
    ( /\ lastOp \in {"on_sync_mode_night", "on_sync_mode_custom", "on_settings"}
      /\ at_entry.mode # config.mode
      /\ config.mode # "24hr"
      /\ ~InWindow(hour, config.start_hour, config.end_hour) )
    => ~syncRunning /\ ~syncLock

SameDayWindow == config.start_hour <= config.end_hour

\* What the last handler determined about the window, where it determined it:
\* the poll shows it on the schedule label, a mode handler acts on it.
DisplaysInWindow == sync_schedule.text = "active"
DecidesInWindow  == effects # StopSyncCommands

\* C9: for a same-day window (start_hour <= end_hour) and every hour h, the
\* in-window value behind the stop decision and the one behind the schedule
\* label are both true iff start_hour <= h < end_hour.
C9_SameDayWindow ==
    (SameDayWindow /\ config.mode = "scheduled") =>
        /\ (lastOp = "on_sync_mode_custom" =>
               (DecidesInWindow <=> (config.start_hour <= hour /\ hour < config.end_hour)))
        /\ (lastOp = "update_all" =>
               (DisplaysInWindow <=> (config.start_hour <= hour /\ hour < config.end_hour)))

\* C10: for an overnight window (start_hour > end_hour) and every hour h, the
\* in-window value behind the stop decision (night and custom) and the one
\* behind the schedule label (night and custom branch of update_sync) are both
\* true iff h >= start_hour or h < end_hour.
C10_OvernightWindow ==
    (~SameDayWindow /\ config.mode \in {"night", "scheduled"}) =>
        /\ (lastOp \in {"on_sync_mode_night", "on_sync_mode_custom"} =>
               (DecidesInWindow <=> (hour >= config.start_hour \/ hour < config.end_hour)))
        /\ (lastOp = "update_all" =>
               (DisplaysInWindow <=> (hour >= config.start_hour \/ hour < config.end_hour)))

\* C10 witness: the poll has rendered an overnight custom window as active at
\* an hour after midnight, which only the wrapped formula accepts.
C10_Witness ==
    /\ lastOp = "update_all"
    /\ config.mode = "scheduled"
    /\ ~SameDayWindow
    /\ hour < config.end_hour
    /\ DisplaysInWindow

-----------------------------------------------------------------------------
(* Reading the status files *)

\* What the content c states for key: its first complete member of that key
Stated(c, key) ==
    LET at == { i \in 1 .. Len(c) : c[i].t = "field" /\ c[i].key = key }
    IN  IF at = {} THEN Missing ELSE Value(c[MinOf(at)].ty, c[MinOf(at)].val)

PollRead == lastOp \in {"update_all", "update_all:raised"} /\ progressFile # <<>>

Unrecoverable(f, key) ==
    f = <<>> \/ \A i \in 1 .. Len(f[1]) : f[1][i].key # key

\* C12: reading status is total: for every state of the phase and progress
\* files update_transfer completes without raising, and a field it could not
\* recover reads as its default (percent 0, current file "").
C12_ReadIsTotal ==
    /\ lastOp # "update_all:raised"
    /\ lastOp \in {"update_all", "update_all:OSError"} =>
          /\ Unrecoverable(progressFile, "percent")
                => Get(progress, "percent", Value("int", "0")) = Value("int", "0")
          /\ Unrecoverable(progressFile, "current_file")
                => Get(progress, "current_file", Value("str", "")) = Value("str", "")

\* C13: whatever the files held and whatever ran, every periodic handler
\* (update_all, check_usb_removed, check_auto_dim) is still scheduled.
C13_PeriodicHandlersStayScheduled ==
    timers = PeriodicHandlers

-----------------------------------------------------------------------------
(* Eject and the eject button *)

\* C14: on_eject removes the phase, progress and lock files and shows the
\* "ejected" confirmation; only the 3 s timer takes the panel from that
\* confirmation to the waiting view; and when the timer fires the panel shows
\* the waiting view.
C14_EjectedShownUntilGraceTimer ==
    [][ /\ lastOp' = "on_eject" /\ lastOp # "on_eject"
            => /\ statusFile' = Absent /\ progressFile' = <<>> /\ ~lockFile'
               /\ view'.status_text = TextEjected
        /\ (view.status_text = TextEjected /\ view'.status_text = TextWaiting)
            => lastOp' = "reset_to_waiting"
        /\ lastOp' = "reset_to_waiting" /\ reset_timers' < reset_timers
            => view'.status_text = TextWaiting ]_vars

Polled == lastOp \in {"update_all", "update_all:raised", "update_all:OSError"}

\* C15: after every poll that read a phase token of the pipeline, the eject
\* button is enabled iff the phase is terminal, and so disabled for every
\* active phase.
C15_EjectEnabledIffTerminal ==
    (Polled /\ statusFile \in ActivePhases \cup TerminalPhases)
        => (view.eject_sensitive <=> statusFile \in TerminalPhases)

-----------------------------------------------------------------------------
(* Screen dimming *)

IdleFor == monotonic_time - last_activity_time

\* C16: once the idle time has reached 300 s the next check_auto_dim issues
\* one brightness write to the dim level (the write set_brightness makes when a
\* backlight device exists), and from that dim to the next wake no further dim
\* is issued: a check_auto_dim tick or a Dim press while dimmed issues nothing.
C16_DimOncePerIdlePeriod ==
    /\ dims_since_wake <= 1
    /\ is_dimmed => dims_since_wake = 1
    /\ lastOp = "check_auto_dim:dim" =>
          /\ effects = BrightnessWrite(BRIGHTNESS_DIM)
          /\ backlight_path => Len(effects) = 1
    /\ (lastOp \in {"check_auto_dim", "check_auto_dim:dim"}
            /\ IdleFor >= AUTO_DIM_SECONDS) => is_dimmed
    /\ lastOp \in {"check_auto_dim", "on_dim_screen"} => effects = <<>>

\* C16 witness: an auto-dim has happened, and a later check_auto_dim tick, with
\* the idle time still over the threshold, has issued nothing.
C16_Witness ==
    /\ lastOp = "check_auto_dim"
    /\ is_dimmed
    /\ backlight_path
    /\ brightness = BRIGHTNESS_DIM
    /\ IdleFor > AUTO_DIM_SECONDS

\* C17: the first activity after a dim issues exactly one write to the maximum
\* level and resets the idle clock in the same step; an activity while not
\* dimmed issues no write and only resets the idle clock; so an auto-dim comes
\* no earlier than 300 s after the latest activity.
C17_WakeOnceAndResetIdleClock ==
    /\ lastOp = "on_activity:wake" =>
          /\ effects = BrightnessWrite(BRIGHTNESS_MAX)
          /\ backlight_path => Len(effects) = 1
          /\ ~is_dimmed
          /\ last_activity_time = monotonic_time
    /\ lastOp = "on_activity" =>
          /\ effects = <<>>
          /\ ~is_dimmed
          /\ last_activity_time = monotonic_time
    /\ lastOp = "check_auto_dim:dim" => IdleFor >= AUTO_DIM_SECONDS

\* C17 witness: the screen was dimmed after an earlier activity, an activity
\* has just woken it, and the brightness file is back at the maximum.
C17_Witness ==
    /\ lastOp = "on_activity:wake"
    /\ monotonic_time > AUTO_DIM_SECONDS
    /\ backlight_path
    /\ brightness = BRIGHTNESS_MAX
    /\ effects = BrightnessWrite(BRIGHTNESS_MAX)

-----------------------------------------------------------------------------
(* The quota cache *)

\* C18: under every interleaving of the refresh threads' writes with the
\* poll's load_gdrive_info, self.gdrive_info is empty or the complete record
\* one refresh has written to its end.
C18_CacheNeverHalfUpdated ==
    gdrive_info = <<>> \/ gdrive_info[1] \in finished

\* C18 witness: the poll holds a complete record while the file holds the text
\* of one refresh followed by the rest of a longer one.
C18_Witness ==
    /\ lastOp = "update_all"
    /\ gdrive_info # <<>>
    /\ gdriveFile # <<>>
    /\ json_load(gdriveFile) = <<>>

\* C19: a refresh in which a remote query (rclone about, rclone size) failed
\* or timed out does not touch the cache file.
C19_FailedRefreshKeepsCache ==
    \A i \in DOMAIN fetchers :
        fetchers[i].failed => fetchers[i].pc \notin {"open", "write"}

-----------------------------------------------------------------------------
(* The configuration across restarts *)

ConfigCommands ==
    {"on_sync_mode_24hr", "on_sync_mode_night", "on_sync_mode_custom", "on_settings"}

\* C20: after an operator command that changes the configuration (24hr, Night,
\* Custom save, Settings save), load_config on the file returns the mode,
\* start_hour and end_hour the coordinator holds in memory.
C20_ConfigSurvivesRestart ==
    lastOp \in ConfigCommands => load_config(configFile) = config

-----------------------------------------------------------------------------
(* The phase file and the status server *)

\* C21: whenever the phase file is absent, a GUI poll renders the idle view.
C21_AbsentPhaseRendersIdle ==
    (lastOp \in {"update_all", "update_all:OSError"} /\ statusFile = Absent) =>
        /\ view.status_text = TextWaiting
        /\ view.progress = "0%"

\* The lines of the file that are JSON, in file order
WellFormedLines == SelectSeq(notificationsFile, LAMBDA l : l.kind \in {"object", "value"})

\* C22: the answer to GET /api/status holds the phase token (IDLE for an absent
\* or empty phase file), a timestamp, and the last RECENT lines of the
\* notifications file that are JSON, in file order, malformed and blank lines
\* left out; without a notifications file the list is empty.
C22_JsonStatusRecord ==
    lastOp = "send_json_response" =>
        /\ reply.code = 200
        /\ Len(reply.body) = 1
        /\ reply.body[1].status \in {"IDLE"} \cup (StatusContents \ {Absent, ""})
        /\ statusFile \in {Absent, ""} => reply.body[1].status = "IDLE"
        /\ reply.body[1].timestamp = hour
        /\ LET n == reply.body[1].notifications
               w == WellFormedLines
           IN  /\ Len(n) = IF Len(w) < RECENT THEN Len(w) ELSE RECENT
               /\ \A i \in 1 .. Len(n) : n[i] = w[Len(w) - Len(n) + i]

\* C22 witness: more than RECENT well-formed lines with a malformed one among
\* the last RECENT lines of the file.
C22_Witness ==
    /\ lastOp = "send_json_response"
    /\ Len(WellFormedLines) > RECENT
    /\ \E i \in DOMAIN notificationsFile :
          /\ i > Len(notificationsFile) - RECENT
          /\ notificationsFile[i].kind = "garbage"
    /\ Len(reply.body[1].notifications) = RECENT

\* C23: the answer to a GET of another path is a complete page with the phase
\* token and the recent notifications, newest first.
C23_HtmlPageComplete ==
    lastOp = "send_html_response" => reply.body # <<>>

-----------------------------------------------------------------------------
(* The answers *)

\* C24: after the operator has answered a prompt (one of its two buttons), the
\* file of that kind holds the answer and nothing else ("skip" / "overwrite";
\* the trimmed label, or "" for the default), and the file of the other kind is
\* as it was.
C24_AnswerOverwritesItsFile ==
    [][ /\ \A r \in {"1", "2"} :
              AnswerDecision({r}, WriteOutcomes) =>
                  /\ decisionFile' = DecisionOf(r)
                  /\ deviceRefFile' = deviceRefFile
        /\ \A r \in {"1", "2"}, text \in EntryTexts :
              AnswerDeviceRef({r}, {text}, WriteOutcomes) =>
                  /\ deviceRefFile' = DeviceRefOf(r, text)
                  /\ decisionFile' = decisionFile ]_vars

-----------------------------------------------------------------------------
(* Mounting and dismounting *)

\* C25: a remount with the external HDD mounted runs no mount command for it
\* and records already-mounted; otherwise it runs the mount on /dev/sda1, then
\* on the alternates /dev/sda1 and /dev/sdb1 in this order, stops at the first
\* success, and records the device that succeeded, or not-found after all of
\* them have failed.
C25_MountIfNeeded ==
    [][ lastOp' = "on_remount" =>
          LET tried == report'.attempts
              order == <<"/dev/sda1", "/dev/sda1", "/dev/sdb1">>
          IN  IF storage.hdd # "none"
              THEN /\ tried = <<>>
                   /\ \A i \in DOMAIN effects' : effects'[i] = "udisksctl mount sdc1"
                   /\ storage'.hdd = storage.hdd
                   /\ report'.mounted_devices[1] = "External HDD (already mounted)"
                   /\ report'.errors = <<>>
              ELSE /\ tried # <<>>
                   /\ \A k \in DOMAIN tried :
                         /\ tried[k].dev = order[k]
                         /\ effects'[k] = "mount " \o order[k]
                         /\ k < Len(tried) => ~tried[k].ok
                   /\ IF tried[Len(tried)].ok
                      THEN /\ storage'.hdd = tried[Len(tried)].dev
                           /\ report'.errors = <<>>
                           /\ report'.mounted_devices[1] =
                                 (IF Len(tried) = 1 THEN "External HDD"
                                  ELSE "External HDD (" \o storage'.hdd \o ")")
                      ELSE /\ Len(tried) = Len(order)
                           /\ storage'.hdd = "none"
                           /\ report'.errors = <<"External HDD not found">>
                           /\ \A i \in DOMAIN report'.mounted_devices :
                                 report'.mounted_devices[i] = "USB (sdc1)" ]_vars

\* C25 witness: the mount succeeded on the last alternate after both commands
\* on /dev/sda1 had failed.
C25_Witness ==
    /\ lastOp = "on_remount"
    /\ storage.hdd = "/dev/sdb1"
    /\ Len(report.attempts) = 3
    /\ report.mounted_devices[1] = "External HDD (/dev/sdb1)"

Index(seq, cmd) == CHOOSE i \in DOMAIN seq : seq[i] = cmd

\* C26: a declined dismount signals no process and unmounts nothing; a
\* confirmed one terminates the sync processes, then flushes the buffers, then
\* unmounts the removable mount points, and unmounts the external HDD last.
C26_DismountGatedAndOrdered ==
    [][ /\ lastOp' = "on_dismount_all:declined" =>
              /\ effects' = <<>>
              /\ storage' = storage
              /\ syncRunning' = syncRunning
        /\ lastOp' = "on_dismount_all:YES" =>
              LET e == effects'
              IN  /\ \A c \in {"pkill rclone", "pkill backup-to-gdrive", "sync",
                               "umount /media/pebl/*", "umount /media/usb-source",
                               "umount /media/external-hdd"} : \E i \in DOMAIN e : e[i] = c
                  /\ \A k \in {"pkill rclone", "pkill backup-to-gdrive"} :
                        Index(e, k) < Index(e, "sync")
                  /\ \A u \in {"umount /media/pebl/*", "umount /media/usb-source"} :
                        /\ Index(e, "sync") < Index(e, u)
                        /\ Index(e, u) < Index(e, "umount /media/external-hdd")
                  /\ Index(e, "umount /media/external-hdd") = Len(e)
                  /\ ~syncRunning' ]_vars

\* C26 witness: a confirmed dismount with a sync running and the HDD mounted.
C26_Witness ==
    /\ lastOp = "on_dismount_all:YES"
    /\ at_entry.sync
    /\ ~syncRunning
    /\ storage.hdd = "none"
    /\ effects # <<>>

\* C27: whenever a remount has not found the external HDD, what it displays
\* contains that outcome.
C27_NotFoundDisplayed ==
    (lastOp = "on_remount" /\ report.errors # <<>>) =>
        \E i \in DOMAIN report.message.items :
            report.message.items[i] = "External HDD not found"

-----------------------------------------------------------------------------
(* The next start on the schedule label *)

\* C28: for every windowed configuration and every time outside its window,
\* the schedule label the poll renders names a next start: the start hour of
\* today if that is still to come and of tomorrow otherwise (so tomorrow for a
\* same-day window at or after end_hour), with a remaining duration that is
\* positive and below 24 hours.
C28_NextStart ==
    ( /\ lastOp = "update_all"
      /\ config.mode \in {"night", "scheduled"}
      /\ ~InWindow(hour, config.start_hour, config.end_hour) )
    => /\ sync_schedule.next_sync # <<>>
       /\ LET n == sync_schedule.next_sync[1]
              remaining == n.h * MinutesPerHour + n.m
          IN  /\ n.hour = config.start_hour
              /\ n.day = (IF hour < config.start_hour THEN 0 ELSE 1)
              /\ (SameDayWindow /\ hour >= config.end_hour) => n.day = 1
              /\ remaining > 0
              /\ remaining < HoursPerDay * MinutesPerHour
              /\ remaining = (n.day * HoursPerDay + config.start_hour) * MinutesPerHour
                                - (hour * MinutesPerHour + minute)

\* The same for the overnight windows only
C28_NextStartOvernight == SameDayWindow \/ C28_NextStart

-----------------------------------------------------------------------------
(* The progress bar and the FAILED view *)

\* The percent of the record the poll parsed, where it is a number
PolledPercent == Get(progress, "percent", Value("int", "0"))

\* C29: after every poll the bar is a function of the phase it read: it pulses
\* for DETECTING, MOUNTING, SCANNING and CHECKING, shows the record's numeric
\* percent for TRANSFERRING, is full for COMPLETE and ALL_DUPLICATES and empty
\* for CANCELLED and FAILED.
C29_BarFollowsPhase ==
    Polled =>
        /\ statusFile \in PulsePhases => view.fraction = <<>>
        /\ (statusFile = "TRANSFERRING" /\ progress.kind = "dict" /\ PolledPercent.ty = "int")
              => view.fraction = <<IntOf(PolledPercent.val)>>
        /\ statusFile \in {"COMPLETE", "ALL_DUPLICATES"} => view.fraction = <<FULL>>
        /\ statusFile \in {"CANCELLED", "FAILED"} => view.fraction = <<0>>

\* The same for the polls that parsed a JSON object
C29_BarFollowsPhaseOfRecord == progress.kind = "dict" => C29_BarFollowsPhase

\* The same over the records of ProgressSamples
C29_BarFollowsPhaseOfSample ==
    lastOp = "update_all" =>
        /\ statusFile \in PulsePhases => view.fraction = <<>>
        /\ statusFile = "TRANSFERRING"
              => view.fraction = <<ProgressGet(progressFile, "percent")>>
        /\ statusFile \in {"COMPLETE", "ALL_DUPLICATES"} => view.fraction = <<FULL>>
        /\ statusFile \in {"CANCELLED", "FAILED"} => view.fraction = <<0>>

\* files_done of the record the poll parsed; 0 where the record has none (no
\* content of ReadSpec has one)
PolledFilesDone ==
    IF progress.kind = "dict" /\ "files_done" \in DOMAIN progress.fields
    THEN IntOf(progress.fields["files_done"].val)
    ELSE 0

\* C30: after every poll that read FAILED the headline is "Completed with
\* Warnings" iff files_done > 0 and "Transfer Failed" iff files_done is 0 or
\* missing.
C30_FailedByFilesDone ==
    (Polled /\ statusFile = "FAILED") =>
        /\ view.status_text = "Completed with Warnings" <=> PolledFilesDone > 0
        /\ view.status_text = "Transfer Failed" <=> PolledFilesDone = 0

\* The same over the records of ProgressSamples and without a progress file
C30_FailedByFilesDoneOfSample ==
    (lastOp = "update_all" /\ statusFile = "FAILED") =>
        /\ view.status_text = "Completed with Warnings"
              <=> ProgressGet(progressFile, "files_done") > 0
        /\ view.status_text = "Transfer Failed"
              <=> ProgressGet(progressFile, "files_done") = 0

-----------------------------------------------------------------------------
(* The strict parse *)

\* C31: for a strictly valid progress file the record the poll produces equals
\* the content field for field, the file_types mapping included: the repair of
\* the malformation changes nothing in valid content.
C31_ValidFileReadAsWritten ==
    (PollRead /\ progressFile[1] \in WellFormed) =>
        /\ progress.kind = "dict"
        /\ \A k \in ProgressKeys : progress.fields[k] = TopLevel(progressFile[1], k)
        /\ progress.file_types = FileTypes(progressFile[1])
        /\ FixFileTypes(progressFile[1]) = progressFile[1]

-----------------------------------------------------------------------------
(* Schedule changes that keep "now" inside *)

ModeHandlers ==
    {"on_sync_mode_24hr", "on_sync_mode_night", "on_sync_mode_custom", "on_settings"}

-----------------------------------------------------------------------------
(* Overwrite only on request *)

\* C33: however the duplicate prompt ends other than by Overwrite All (Skip
\* Existing, or the dialog closed without a choice), that step does not put
\* "overwrite" into the decision file.
C33_OverwriteOnlyWhenChosen ==
    [][ lastOp' \in {"show_decision_dialog:1", "show_decision_dialog:DELETE_EVENT"}
            => (decisionFile' = "overwrite" => decisionFile = "overwrite") ]_vars

\* The same for the Skip Existing button alone
C33_SkipNeverOverwrites ==
    [][ lastOp' = "show_decision_dialog:1"
            => (decisionFile' = "overwrite" => decisionFile = "overwrite") ]_vars

-----------------------------------------------------------------------------
(* Eject and the pipeline *)

\* C34: on_eject never runs its unmounts and its deletion of the phase,
\* progress and lock files while the phase file holds an active phase.
C34_EjectNeverOnActivePipeline ==
    lastOp = "on_eject" => at_entry.phase \notin ActivePhases

-----------------------------------------------------------------------------
(* Cancel and a finished transfer *)

\* C35: a confirmed cancel does not replace a terminal phase the transfer
\* script has written: on_cancel never writes CANCELLED and the zeroed record
\* over a phase file that holds COMPLETE, ALL_DUPLICATES or FAILED when the
\* operator confirms.
C35_CancelKeepsTerminalPhase ==
    (lastOp = "on_cancel:yes" /\ at_entry.phase \in {"COMPLETE", "ALL_DUPLICATES", "FAILED"})
        => /\ statusFile = at_entry.phase
           /\ progressFile # <<CancelledRecord>>

-----------------------------------------------------------------------------
(* The writers of the quota cache *)

\* The workers that have reached the write of GDRIVE_INFO_FILE
Writers == { i \in DOMAIN fetchers : fetchers[i].pc \in {"open", "write"} }

\* C36: at most one re-arm timer of the quota refresh is pending and at most
\* one refresh worker is running, so the cache file has one writer at a time.
C36_SingleRefresh ==
    /\ refresh_timers <= 1
    /\ Len(fetchers) <= 1
    /\ Cardinality(Writers) <= 1

-----------------------------------------------------------------------------
(* The consumers of the mode *)

\* The button update_sync_mode_buttons highlights for the mode of a schedule label
ButtonOfLabel(label) ==
    CASE label = "24HR MODE - Always Syncing" -> "btn_24hr"
      [] label = "Night Mode"                 -> "btn_night"
      [] OTHER                                -> "btn_custom"

\* C37: for every loaded configuration, including one that has no mode key,
\* the three consumers of the mode agree: the button update_sync_mode_buttons
\* has highlighted, the mode on which apply_sync_mode_change decides whether to
\* stop the sync, and the mode the poll shows on the schedule label.
C37_ModeConsumersAgree ==
    lastOp = "update_all" =>
        /\ ButtonOfLabel(sync_schedule.mode_label) = mode_button
        /\ (mode_button = "btn_24hr") = (GetMode(config, "24hr") = "24hr")
        /\ ApplyStopsSync(config, hour) =
              ( /\ mode_button # "btn_24hr"
                /\ ~is_in_sync_window(hour, config.start_hour, config.end_hour) )

\* The same for the configurations that have a mode key
C37_ModeConsumersAgreeWithKey == config.mode = NoKey \/ C37_ModeConsumersAgree

-----------------------------------------------------------------------------
(* Who writes the answer files *)

DecisionAnswers == {"show_decision_dialog:" \o r : r \in Responses}

\* Startup, cancel, eject, auto-reset and reset_to_waiting
Housekeepers ==
    {"init", "on_cancel:yes", "on_cancel:no", "on_eject", "check_usb_removed:reset",
     "reset_to_waiting"}

\* C38: the coordinator writes a decision file only as the direct result of the
\* operator answering the matching prompt: DECISION_FILE changes only in
\* show_decision_dialog, DEVICE_REF_FILE only in show_device_reference_dialog,
\* and startup, cancel, eject, auto-reset and reset_to_waiting leave both files
\* as they are (neither cleared nor removed).
C38_AnswersOnlyByAnswering ==
    [][ /\ decisionFile' # decisionFile => lastOp' \in DecisionAnswers
        /\ deviceRefFile' # deviceRefFile => lastOp' = "show_device_reference_dialog"
        /\ lastOp' \in Housekeepers => UNCHANGED answers ]_vars

\* Both answers are on file and an eject, an auto-reset or a startup has run
C38_Witness ==
    /\ decisionFile = "skip"
    /\ deviceRefFile = "Camera_1"
    /\ lastOp \in {"on_eject", "check_usb_removed:reset", "init"}
    /\ statusFile = Absent

-----------------------------------------------------------------------------
(* The shape of the configuration *)

Modes == {"24hr", "night", "scheduled"}

\* C39: starting from the default configuration, after any sequence of operator
\* configuration commands (24hr, Night, Custom save or cancel, Settings save or
\* cancel): mode is one of 24hr, night, scheduled; start_hour and end_hour are
\* integers in 0..23; and mode = night implies start_hour = 22 and end_hour =
\* 6, so the night window the display hard-codes is the configured window the
\* stop decision uses.
C39_ConfigWellShaped ==
    /\ config.mode \in Modes
    /\ config.start_hour \in Hours
    /\ config.end_hour \in Hours
    /\ config.mode = "night" =>
          /\ config.start_hour = NIGHT_START
          /\ config.end_hour = NIGHT_END
          /\ UpdateSyncInWindow(hour, NIGHT_START, NIGHT_END)
                = is_in_sync_window(hour, config.start_hour, config.end_hour)

\* Night is chosen at noon on a custom window that the poll has shown active:
\* the hours become 22 and 6 and the running sync is stopped
C39_Witness ==
    /\ lastOp = "on_sync_mode_night"
    /\ at_entry.mode = "scheduled"
    /\ at_entry.sync
    /\ hour = 12
    /\ sync_schedule = [mode_label |-> "Custom Schedule", text |-> "active"]
    /\ config = [mode |-> "night", start_hour |-> NIGHT_START, end_hour |-> NIGHT_END]
    /\ effects = StopSyncCommands

====
